---- MODULE Spec2Model ----
(***************************************************************************)
(* Model of the mail exporter: the incremental exporter                    *)
(* (incremental_exporter.py) and the incremental fetch loop of the mail    *)
(* client (mail_client.py, fetch_emails_incremental).                      *)
(*                                                                         *)
(* A file is modelled by the rows it holds.  A CSV row is <<seq, id>>: the *)
(* sequence number written in the first column and the identifier of the   *)
(* message the record was parsed from; the header row is <<0, 0>>.  A text *)
(* file object keeps the rows written but not yet flushed in "pending".    *)
(* I/O errors are inputs: every operation that touches the file system or  *)
(* the IMAP session takes a fault drawn from a small set.                  *)
(* progress_callback only reports; it is taken not to raise and is left    *)
(* out.                                                                    *)
(*                                                                         *)
(* Further parts: the Gmail authenticator and its token file               *)
(* (oauth_gmail.py, SpecOAuth), the interactive OAuth flow with its        *)
(* callback listener (SpecFlow, SpecFlowFair) and the retry loop of        *)
(* create_imap_connection (proxy_imap.py, SpecConn), the bulk exporter     *)
(* and fetch_emails_batch (email_exporter.py, SpecBulk), the session of    *)
(* MailClient (SpecClient), provider resolution (email_providers.py,       *)
(* SpecResolve) and the export of the window (mail_exporter_gui.py,        *)
(* SpecGui, SpecGuiFair), the steps of MailClient.connect (SpecLogin), the  *)
(* time locale around search_emails (SpecLocale) and the body taken from   *)
(* a message (email_parser.py, SpecParse).  Each specification moves its   *)
(* own variables and leaves the others at rest.                            *)
(***************************************************************************)
EXTENDS Integers, Sequences, FiniteSets, TLC

\* ------------------------------------------------------------------ bounds
MaxTotal == 11
MaxLimit == 2
MaxFaults == 2
MaxCalls == 5
NThreads == 2
MaxConcCalls == 4
MaxClock == 2
MaxTokens == 2
MaxOversleep == 1
MaxRetries == 3
MaxRecords == 2
MaxSessions == 2
MaxRuns == 2
MaxQueue == 2
MaxParts == 2

\* ------------------------------------------------------- program constants
batch_size == 10

supported_formats == {"csv", "json"}

\* _perform_oauth_flow: timeout = 300 (seconds)
timeout == 300

VARIABLES
    exporter,          \* the IncrementalEmailExporter object
    disk,              \* the content of output_file on disk
    faults,            \* number of faults injected so far
    added,             \* history: every completed add_email call, in order
    calls,             \* history: the exporter operations called and what
                       \* each returned, in order
    \* ---- fetch_emails_incremental (one run)
    pc,
    export_format,
    email_count_limit,
    stop_flag,         \* "None" or "callable"
    stop_requested,    \* what the callable returns
    search_result,
    email_ids,
    total_emails,
    processed_count,
    batch_start,
    idx,               \* index of the current message in batch_ids
    email_data,        \* identifier of the record parsed last (0: none)
    result,            \* kind "running", "raise" or "return" (of value)
    fetched,           \* history: identifiers passed to fetch_email
    stop_seen,         \* history: a stop_flag() poll returned true
    polled,            \* history: the polls made since the last fetch_email
    \* ---- threads calling one exporter
    lock,              \* the thread holding exporter.lock, 0 when free
    tpc,               \* where each thread is in its call
    tret,              \* what each thread's finalize body returned
    closed_at,         \* history: the number of add_email calls completed
                       \* when the session was first closed or reset, else -1
    \* ---- GmailOAuth (one authenticator object and its token file)
    token_file,        \* the content of token_file on disk
    credentials,       \* self.credentials
    now,               \* the clock the expiry of a token is compared with
    issued,            \* number of access tokens the server has issued
    has_client,        \* self.client_id and self.client_secret are set
    oauth_pc,          \* "new" before the constructor ran, then "ready"
    olast,             \* history: the last operation and what happened in it
    by_refresh,        \* history: the tokens that were obtained by a refresh
    \* ---- _perform_oauth_flow (one run, with the callback listener)
    flow_pc,
    server,            \* "none", "serving" or "shutdown"
    browser,           \* "none", "opened" or "failed" (webbrowser.open raised)
    auth_code,         \* server.auth_code: "None" or "code"
    auth_error,        \* server.auth_error: "None" or "error"
    elapsed,           \* half seconds since start_time
    flow_result,       \* kind "running", "raise" or "return"
    exchanged,         \* history: fetch_token returned tokens for the code
    \* ---- create_imap_connection (one call)
    conn_pc,
    max_retries,
    attempt,
    last_error,
    outcomes,          \* history: the outcome of every attempt, in order
    slept,             \* history: the sleeps made, in half seconds
    conn_result,
    proxy_config,      \* the proxy_config argument
    socks_available,   \* SOCKS_AVAILABLE: PySocks could be imported
    routes,            \* history: how the socket of every attempt was made
    \* EmailExporter (email_exporter.py) and MailClient.fetch_emails_batch
    out_file,          \* the file at the output path
    out_dir,           \* TRUE when the parent directory of the path exists
    bulk_last,         \* history: the last call, its arguments and its result
    \* MailClient's session (mail_client.py)
    client_config,     \* self.config: auth_type, imap_port, use_ssl
    mail,              \* self.mail: "None" or "session"
    imap_state,        \* the state of the IMAP session opened last
    sessions,          \* history: the number of sessions opened
    client_last,       \* history: the last call and its result
    \* provider resolution (email_providers.py, MailClient.__init__)
    resolved,          \* history: the last lookup, its arguments and result
    \* the GUI's export (mail_exporter_gui.py)
    start_btn,         \* state of the Start button
    cancel_btn,        \* state of the Stop button
    is_exporting,
    gui_stop_requested, \* self.stop_requested of the window
    message_queue,     \* the kinds of the messages waiting, oldest first
    worker_pc,         \* where the export thread is
    runs,              \* history: the number of exports started
    finished_put,      \* history: "finished" messages enqueued by this run
    progress_var,      \* the value shown by the progress bar
    workers,           \* history: the export threads that have not ended
    ended_as,          \* history: how the last run's export call ended
    widget_access,     \* history: the threads that touched a widget, and how
    \* MailClient.connect, step by step (mail_client.py)
    login_config,      \* self.config of the client that connects
    login_args,        \* the username and password connect was called with
    login_pc,          \* where connect is
    tls,               \* TRUE when the session's socket is wrapped in TLS
    wire,              \* history: the commands sent, each with tls at the time
    login_error,       \* history: the step that made connect raise
    \* the time locale of the process (locale module, search_emails)
    lc_time,           \* the LC_TIME setting in force
    env_locale,        \* the locale named by the environment (LANG, LC_TIME)
    locale_last,       \* history: the setting before the last search_emails
    \* EmailParser.parse_email_content (email_parser.py)
    parsed_msg,        \* the message given to parse_email_content
    parsed_body        \* the body returned for it

exVars == <<exporter, disk, faults, added, calls>>
runVars == <<pc, export_format, email_count_limit, stop_flag, stop_requested,
             search_result, email_ids, total_emails, processed_count,
             batch_start, idx, email_data, result, fetched, stop_seen, polled>>
concVars == <<lock, tpc, tret, closed_at>>
oauthVars == <<token_file, credentials, now, issued, has_client, oauth_pc,
               olast, by_refresh>>
flowVars == <<flow_pc, server, browser, auth_code, auth_error, elapsed,
              flow_result, exchanged>>
connVars == <<conn_pc, max_retries, attempt, last_error, outcomes, slept,
              conn_result, proxy_config, socks_available, routes>>
bulkVars == <<out_file, out_dir, bulk_last>>
clientVars == <<client_config, mail, imap_state, sessions, client_last>>
resolveVars == <<resolved>>
guiVars == <<start_btn, cancel_btn, is_exporting, gui_stop_requested,
             message_queue, worker_pc, runs, finished_put, progress_var,
             workers, ended_as, widget_access>>
loginVars == <<login_config, login_args, login_pc, tls, wire, login_error>>
localeVars == <<lc_time, env_locale, locale_last>>
parseVars == <<parsed_msg, parsed_body>>
lastVars == <<loginVars, localeVars, parseVars>>
laterVars == <<bulkVars, clientVars, resolveVars, guiVars, lastVars>>
vars == <<exVars, runVars, concVars, oauthVars, flowVars, connVars, laterVars>>

\* the variables each specification leaves alone
idleInRun == <<concVars, oauthVars, flowVars, connVars, laterVars>>
idleInEx == <<runVars, concVars, oauthVars, flowVars, connVars, laterVars>>
idleInConc == <<runVars, oauthVars, flowVars, connVars, laterVars>>
idleInOAuth == <<exVars, runVars, concVars, flowVars, connVars, laterVars>>
idleInFlow == <<exVars, runVars, concVars, connVars, laterVars>>
idleInConn == <<exVars, runVars, concVars, oauthVars, flowVars, laterVars>>
idleInBulk == <<exVars, runVars, concVars, oauthVars, flowVars, connVars,
               clientVars, resolveVars, guiVars, lastVars>>
idleInClient == <<exVars, runVars, concVars, oauthVars, flowVars, connVars,
                 bulkVars, resolveVars, guiVars, lastVars>>
idleInResolve == <<exVars, runVars, concVars, oauthVars, flowVars, connVars,
                  bulkVars, clientVars, guiVars, lastVars>>
idleInGui == <<exVars, runVars, concVars, oauthVars, flowVars, connVars,
              bulkVars, clientVars, resolveVars, lastVars>>
idleInLogin == <<exVars, runVars, concVars, oauthVars, flowVars, connVars,
                bulkVars, clientVars, resolveVars, guiVars, localeVars,
                parseVars>>
idleInLocale == <<exVars, runVars, concVars, oauthVars, flowVars, connVars,
                 bulkVars, clientVars, resolveVars, guiVars, loginVars,
                 parseVars>>
idleInParse == <<exVars, runVars, concVars, oauthVars, flowVars, connVars,
                bulkVars, clientVars, resolveVars, guiVars, loginVars,
                localeVars>>

\* ------------------------------------------------------------ helpers
Min(a, b) == IF a < b THEN a ELSE b

IsPrefix(s, t) == Len(s) <= Len(t) /\ SubSeq(t, 1, Len(s)) = s

RECURSIVE SelectOk(_)
\* the rows of the add_email calls that returned True, in call order
SelectOk(log) ==
    IF log = <<>> THEN <<>>
    ELSE IF Head(log).ok THEN <<Head(log).row>> \o SelectOk(Tail(log))
         ELSE SelectOk(Tail(log))

HeaderRow == <<0, 0>>

Row(seq, id) == <<seq, id>>

\* str.lower() on the format names used here
Lower(s) ==
    CASE s = "CSV" -> "csv"
      [] s = "JSON" -> "json"
      [] OTHER -> s

NoneJson == [present |-> FALSE, total_emails |-> 0, emails |-> <<>>]

AbsentFile == [kind |-> "absent", rows |-> <<>>]

\* result of an exporter operation: the object, the disk, the value returned
\* ("True", "False", "None"), or "exc" for a raised exception
R(e, d, r) == [ex |-> e, disk |-> d, ret |-> r]

\* ---------------------------------------------- IncrementalEmailExporter
NewExporter ==
    [is_initialized |-> FALSE,
     format_type |-> "None",
     current_file |-> "None",     \* "None", "open" or "closed" (a file object)
     csv_writer |-> "None",
     json_data |-> NoneJson,
     pending |-> <<>>]

_initialize_csv(ex, d, fault) ==
    IF fault = "open" THEN R(ex, d, "exc")
    ELSE LET opened == [ex EXCEPT !.current_file = "open",
                                  !.pending = <<>>,
                                  !.csv_writer = "writer"]
             truncated == [kind |-> "csv", rows |-> <<>>]
         IN  IF fault = "flush"
             THEN R([opened EXCEPT !.pending = <<HeaderRow>>], truncated, "exc")
             ELSE R(opened, [truncated EXCEPT !.rows = <<HeaderRow>>], "None")

_initialize_json(ex, d) ==
    R([ex EXCEPT !.json_data =
            [present |-> TRUE, total_emails |-> 0, emails |-> <<>>]],
      d, "None")

initialize_export(ex, d, format, fault) ==
    LET e1 == [ex EXCEPT !.format_type = Lower(format)]
        body ==
            IF e1.format_type \notin supported_formats THEN R(e1, d, "exc")
            ELSE IF fault = "makedirs" THEN R(e1, d, "exc")
            ELSE IF e1.format_type = "csv" THEN _initialize_csv(e1, d, fault)
            ELSE _initialize_json(e1, d)
    IN  IF body.ret = "exc" THEN R(body.ex, body.disk, "False")
        ELSE R([body.ex EXCEPT !.is_initialized = TRUE], body.disk, "True")

\* faulty variant: the row is written but the file is not flushed
_add_email_to_csv_unflushed(ex, d, row, fault) ==
    IF ex.csv_writer = "None" \/ ex.current_file # "open" THEN R(ex, d, "False")
    ELSE IF fault = "write" THEN R(ex, d, "False")
    ELSE R([ex EXCEPT !.pending = Append(ex.pending, row)], d, "True")

_add_email_to_csv(ex, d, row, fault) ==
    IF ex.csv_writer = "None" \/ ex.current_file # "open" THEN R(ex, d, "False")
    ELSE IF fault = "write" THEN R(ex, d, "False")
    ELSE LET written == [ex EXCEPT !.pending = Append(ex.pending, row)]
         IN  IF fault = "flush" THEN R(written, d, "False")
             ELSE R([written EXCEPT !.pending = <<>>],
                    [d EXCEPT !.rows = d.rows \o written.pending],
                    "True")

_add_email_to_json(ex, d, row) ==
    IF ~ex.json_data.present THEN R(ex, d, "False")
    ELSE LET emails == Append(ex.json_data.emails, row)
         IN  R([ex EXCEPT !.json_data.emails = emails,
                          !.json_data.total_emails = Len(emails)],
               d, "True")

\* the body of add_email run under the lock
add_email_locked(ex, d, row, fault) ==
    IF ex.format_type = "csv" THEN _add_email_to_csv(ex, d, row, fault)
    ELSE IF ex.format_type = "json" THEN _add_email_to_json(ex, d, row)
    ELSE R(ex, d, "False")

\* faulty variant: add_email does not test is_initialized
add_email_unguarded(ex) == TRUE

\* add_email, lines 98-99: the call goes on when the exporter is initialized
add_email_guard(ex) == ex.is_initialized

add_email(ex, d, row, fault) ==
    IF ~add_email_guard(ex) THEN R(ex, d, "False")
    ELSE add_email_locked(ex, d, row, fault)

_finalize_csv(ex, d, fault) ==
    IF ex.current_file = "None" THEN R(ex, d, "True")
    ELSE IF ex.current_file = "closed" THEN
        \* flush() of a closed file raises ValueError
        R(ex, d, "False")
    ELSE IF fault = "flush" THEN R(ex, d, "False")
    ELSE LET flushed == [d EXCEPT !.rows = d.rows \o ex.pending]
         IN  IF fault = "close"
             THEN R([ex EXCEPT !.pending = <<>>, !.current_file = "closed"],
                    flushed, "False")
             ELSE R([ex EXCEPT !.pending = <<>>,
                               !.current_file = "None",
                               !.csv_writer = "None"],
                    flushed, "True")

\* json.dump of the envelope, or of None once json_data was reset
JsonFile(json_data) ==
    IF json_data.present THEN [kind |-> "json", rows |-> json_data.emails]
    ELSE [kind |-> "null", rows |-> <<>>]

\* faulty variant: json_data is reset before it is written
_finalize_json_reset_first(ex, d, fault) ==
    IF fault = "open" THEN R(ex, d, "False")
    ELSE IF fault = "dump" THEN R(ex, [kind |-> "torn", rows |-> <<>>], "False")
    ELSE R([ex EXCEPT !.json_data = NoneJson], JsonFile(NoneJson), "True")

_finalize_json(ex, d, fault) ==
    IF fault = "open" THEN R(ex, d, "False")
    ELSE IF fault = "dump" THEN R(ex, [kind |-> "torn", rows |-> <<>>], "False")
    ELSE R([ex EXCEPT !.json_data = NoneJson], JsonFile(ex.json_data), "True")

\* the body of finalize_export run under the lock
finalize_export_locked(ex, d, fault) ==
    IF ex.format_type = "csv" THEN _finalize_csv(ex, d, fault)
    ELSE IF ex.format_type = "json" THEN _finalize_json(ex, d, fault)
    ELSE R(ex, d, "False")

\* faulty variant: is_initialized is cleared only when the body succeeded
finalize_export_clears_on_success(ex, d, fault) ==
    IF ~ex.is_initialized THEN R(ex, d, "False")
    ELSE LET body == finalize_export_locked(ex, d, fault)
         IN  R([body.ex EXCEPT !.is_initialized = (body.ret # "True")],
               body.disk, body.ret)

finalize_export(ex, d, fault) ==
    IF ~ex.is_initialized THEN R(ex, d, "False")
    ELSE LET body == finalize_export_locked(ex, d, fault)
         IN  R([body.ex EXCEPT !.is_initialized = FALSE], body.disk, body.ret)

\* the body of cleanup run under the lock; "exc" is swallowed by the caller
cleanup_locked(ex, d, fault) ==
    LET reset(e) == [e EXCEPT !.csv_writer = "None",
                              !.json_data = NoneJson,
                              !.is_initialized = FALSE]
    IN  IF ex.current_file = "None" THEN R(reset(ex), d, "None")
        ELSE IF ex.current_file = "closed" THEN
            R(reset([ex EXCEPT !.current_file = "None"]), d, "None")
        ELSE IF fault = "close" THEN
            \* close() raised: the handle is closed, nothing after it runs
            R([ex EXCEPT !.current_file = "closed"], d, "exc")
        ELSE R(reset([ex EXCEPT !.current_file = "None", !.pending = <<>>]),
               [d EXCEPT !.rows = d.rows \o ex.pending], "None")

cleanup(ex, d, fault) ==
    LET body == cleanup_locked(ex, d, fault)
    IN  R(body.ex, body.disk, "None")

\* ------------------------------------------------ faults (I/O errors)
InitializeFaults == {"none", "makedirs", "open", "flush"}
AddFaults == {"none", "write", "flush"}
FinalizeFaults == {"none", "flush", "close", "open", "dump"}
CleanupFaults == {"none", "close"}
SearchFaults == {"none", "search"}
FetchFaults == {"none", "fetch"}

\* a fault may be injected while the budget lasts
Inject(fault) ==
    /\ fault # "none" => faults < MaxFaults
    /\ faults' = IF fault = "none" THEN faults ELSE faults + 1

\* --------------------------------- MailClient.fetch_emails_incremental
Formats == {"csv", "JSON", "xml"}

\* stop_flag and callable(stop_flag) and stop_flag()
Poll(flag, requested) == flag = "callable" /\ requested

\* faulty variant: the first identifiers are kept instead of the last
apply_limit_head(ids, limit) ==
    IF limit > 0 /\ Len(ids) > limit THEN SubSeq(ids, 1, limit) ELSE ids

\* email_ids[-email_count_limit:] when the limit applies
apply_limit(ids, limit) ==
    IF limit > 0 /\ Len(ids) > limit
    THEN SubSeq(ids, Len(ids) - limit + 1, Len(ids))
    ELSE ids

\* email_ids[batch_start:batch_end]
batch_ids(ids, start, total) ==
    SubSeq(ids, start + 1, Min(start + batch_size, total))

Running == [kind |-> "running", value |-> 0]

Raised == [kind |-> "raise", value |-> 0]

Returned(n) == [kind |-> "return", value |-> n]

Call(op, ret) == [op |-> op, ret |-> ret]

\* the history entry of an add_email call: its row, whether it returned True,
\* and whether the row reached the file object or the JSON list
Added(row, ex, r) ==
    [row |-> row,
     ok |-> r.ret = "True",
     kept |-> r.ret = "True" \/ r.ex.pending # ex.pending]

\* faulty variant: the number of messages found is returned
returned_total(processed, total) == total

\* line 626: return processed_count
returned_count(processed, total) == processed

\* the stop checks of lines 547, 561 and 595 break when the poll is true
batch_break(poll) == poll

\* faulty variant: the check before a message does not leave the loop
msg_break_never(poll) == FALSE

msg_break(poll) == poll

post_break(poll) == poll

\* faulty variant: cleanup() only after a normal return
cleanup_only_on_return(created, res) == created /\ res.kind = "return"

\* the finally block: if incremental_exporter: incremental_exporter.cleanup()
cleanup_in_finally(created, res) == created

RunInit ==
    /\ pc = "start"
    /\ export_format \in Formats
    /\ email_count_limit \in 0..MaxLimit
    /\ stop_flag \in {"None", "callable"}
    /\ stop_requested = FALSE
    /\ \E T \in 0..MaxTotal : search_result = [k \in 1..T |-> k]
    /\ email_ids = <<>>
    /\ total_emails = 0
    /\ processed_count = 0
    /\ batch_start = 0
    /\ idx = 0
    /\ email_data = 0
    /\ result = Running
    /\ fetched = <<>>
    /\ stop_seen = FALSE
    /\ polled = {}

ExInit ==
    /\ exporter = NewExporter
    /\ disk = AbsentFile
    /\ faults = 0
    /\ added = <<>>
    /\ calls = <<>>

Threads == 1..NThreads

ConcIdle ==
    /\ lock = 0
    /\ tpc = [t \in Threads |-> "idle"]
    /\ tret = [t \in Threads |-> "None"]
    /\ closed_at = -1

\* ---- the authenticator, the OAuth flow and the connection call at rest
\* Credentials.expiry is None
NoExpiry == -1

\* self.credentials = None
NoneCred ==
    [present |-> FALSE, tok |-> 0, expiry |-> NoExpiry, refresh |-> FALSE,
     full |-> FALSE]

\* a Credentials object: the access token (an identifier), its expiry, whether
\* it has a refresh token, and whether its scopes hold every scope of SCOPES
Cred(tok, expiry, refresh, full) ==
    [present |-> TRUE, tok |-> tok, expiry |-> expiry, refresh |-> refresh,
     full |-> full]

\* os.path.exists(self.token_file) is false
AbsentToken ==
    [kind |-> "absent", tok |-> 0, expiry |-> NoExpiry, refresh |-> FALSE,
     full |-> FALSE]

\* what the history records when no operation has run
NoOp ==
    [op |-> "none", force |-> FALSE, ret |-> "None", refreshed |-> "no",
     invalid |-> FALSE, flow |-> "not_run", used |-> NoneCred]

FlowRunning == [kind |-> "running", error |-> "none"]

FlowRaised(e) == [kind |-> "raise", error |-> e]

FlowReturned == [kind |-> "return", error |-> "none"]

OAuthIdle ==
    /\ token_file = AbsentToken
    /\ credentials = NoneCred
    /\ now = 0
    /\ issued = 0
    /\ has_client = FALSE
    /\ oauth_pc = "idle"
    /\ olast = NoOp
    /\ by_refresh = {}

FlowIdle ==
    /\ flow_pc = "idle"
    /\ server = "none"
    /\ browser = "none"
    /\ auth_code = "None"
    /\ auth_error = "None"
    /\ elapsed = 0
    /\ flow_result = FlowRunning
    /\ exchanged = FALSE

ConnRunning == [kind |-> "running", error |-> "None", attempt |-> 0]

\* proxy_config is None
NoProxy == [given |-> FALSE, enabled |-> FALSE, type |-> "http", host |-> FALSE]

ConnIdle ==
    /\ conn_pc = "idle"
    /\ max_retries = 0
    /\ attempt = 0
    /\ last_error = "None"
    /\ outcomes = <<>>
    /\ slept = <<>>
    /\ conn_result = ConnRunning
    /\ proxy_config = NoProxy
    /\ socks_available = FALSE
    /\ routes = <<>>

\* no file at the output path, no call made
AbsentOut == [kind |-> "absent", rows |-> <<>>, total |-> 0]

NoCall == [op |-> "none", n |-> 0, bad |-> {}, format |-> "csv",
           fault |-> "none", ret |-> "None", count |-> 0]

BulkIdle ==
    /\ out_file = AbsentOut
    /\ out_dir = FALSE
    /\ bulk_last = NoCall

PasswordConfig == [oauth |-> FALSE, port993 |-> TRUE, use_ssl |-> TRUE]

NoClientCall == [op |-> "none", fail |-> "none", ret |-> "None",
                 error |-> "None", made |-> <<>>]

ClientIdle ==
    /\ client_config = PasswordConfig
    /\ mail = "None"
    /\ imap_state = "none"
    /\ sessions = 0
    /\ client_last = NoClientCall

\* no provider: None
NoConfig == [name |-> "None", imap_server |-> "", domain_patterns |-> <<>>]

NoLookup == [op |-> "none", provider_name |-> "None", email |-> <<>>,
             custom_imap_server |-> "missing",
             custom_imap_port |-> "missing", config |-> NoConfig,
             is_custom_provider |-> FALSE, error |-> "None"]

ResolveIdle == resolved = NoLookup

\* the window as __init__ and the widgets' creation leave it
GuiIdle ==
    /\ start_btn = "normal"
    /\ cancel_btn = "disabled"
    /\ is_exporting = FALSE
    /\ gui_stop_requested = FALSE
    /\ message_queue = <<>>
    /\ worker_pc = "none"
    /\ runs = 0
    /\ finished_put = 0
    /\ progress_var = 0
    /\ workers = 0
    /\ ended_as = "none"
    /\ widget_access = {}

NoLoginConfig == [name |-> "none", imap_port |-> 0, use_ssl |-> FALSE,
                  auth_type |-> "none"]

NoArgs == [username |-> "none", password |-> "none"]

\* no client has been constructed for a connect
LoginIdle ==
    /\ login_config = NoLoginConfig
    /\ login_args = NoArgs
    /\ login_pc = "none"
    /\ tls = FALSE
    /\ wire = <<>>
    /\ login_error = "none"

NoSearch == [op |-> "none", before |-> "C", ret |-> "None"]

\* a fresh Python process: LC_TIME is "C" whatever the environment names
LocaleIdle ==
    /\ lc_time = "C"
    /\ env_locale = "C"
    /\ locale_last = NoSearch

NoMessage == [is_multipart |-> FALSE, parts |-> <<>>]

NotParsed == <<"not parsed">>

ParseIdle ==
    /\ parsed_msg = NoMessage
    /\ parsed_body = NotParsed

LastIdle == LoginIdle /\ LocaleIdle /\ ParseIdle

LaterIdle == BulkIdle /\ ClientIdle /\ ResolveIdle /\ GuiIdle /\ LastIdle

RestIdle == OAuthIdle /\ FlowIdle /\ ConnIdle /\ LaterIdle

Init == ExInit /\ RunInit /\ ConcIdle /\ RestIdle

\* lines 510-516: create the exporter and initialize it
Begin ==
    /\ pc = "start"
    /\ \E fault \in InitializeFaults :
        /\ Inject(fault)
        /\ LET r == initialize_export(NewExporter, disk, export_format, fault)
           IN  /\ exporter' = r.ex
               /\ disk' = r.disk
               /\ calls' = Append(calls, Call("initialize_export", r.ret))
               /\ IF r.ret = "True"
                  THEN pc' = "search" /\ result' = result
                  ELSE pc' = "finally" /\ result' = Raised
    /\ UNCHANGED <<idleInRun, added, export_format, email_count_limit, stop_flag,
                   stop_requested, search_result, email_ids, total_emails,
                   processed_count, batch_start, idx, email_data, fetched,
                   stop_seen, polled>>

\* lines 517-543: search, apply the limit, leave at once when nothing is found
Search ==
    /\ pc = "search"
    /\ \E fault \in SearchFaults \cup FinalizeFaults :
        /\ Inject(fault)
        /\ IF fault = "search"
           THEN /\ pc' = "finally"
                /\ result' = Raised
                /\ UNCHANGED <<exporter, disk, calls, email_ids, total_emails>>
           ELSE LET ids == apply_limit(search_result, email_count_limit)
                    r == finalize_export(exporter, disk, fault)
                IN  /\ email_ids' = ids
                    /\ total_emails' = Len(ids)
                    /\ IF Len(ids) = 0
                       THEN /\ exporter' = r.ex
                            /\ disk' = r.disk
                            /\ calls' = Append(calls,
                                               Call("finalize_export", r.ret))
                            /\ result' = Returned(0)
                            /\ pc' = "finally"
                       ELSE /\ fault = "none"
                            /\ pc' = "batch_check"
                            /\ result' = result
                            /\ UNCHANGED <<exporter, disk, calls>>
    /\ processed_count' = 0
    /\ batch_start' = 0
    /\ UNCHANGED <<idleInRun, added, export_format, email_count_limit, stop_flag,
                   stop_requested, search_result, idx, email_data, fetched,
                   stop_seen, polled>>

\* what a poll adds to the history
Polls(kind) == IF stop_flag = "callable" THEN polled \cup {kind} ELSE polled

\* lines 545-557: the stop check before a batch
BatchCheck ==
    /\ pc = "batch_check"
    /\ polled' = Polls("batch")
    /\ stop_seen' = (stop_seen \/ Poll(stop_flag, stop_requested))
    /\ IF batch_break(Poll(stop_flag, stop_requested))
       THEN pc' = "finalize" /\ idx' = idx
       ELSE pc' = "msg_check" /\ idx' = 0
    /\ UNCHANGED <<idleInRun, exVars, export_format, email_count_limit, stop_flag,
                   stop_requested, search_result, email_ids, total_emails,
                   processed_count, batch_start, email_data, result, fetched>>

\* lines 559-564: the next message of the batch and the stop check before it
MsgCheck ==
    /\ pc = "msg_check"
    /\ IF idx >= Len(batch_ids(email_ids, batch_start, total_emails))
       THEN pc' = "post_batch" /\ UNCHANGED <<stop_seen, polled>>
       ELSE /\ polled' = Polls("message")
            /\ stop_seen' = (stop_seen \/ Poll(stop_flag, stop_requested))
            /\ pc' = IF msg_break(Poll(stop_flag, stop_requested))
                     THEN "post_batch" ELSE "fetch"
    /\ UNCHANGED <<idleInRun, exVars, export_format, email_count_limit, stop_flag,
                   stop_requested, search_result, email_ids, total_emails,
                   processed_count, batch_start, idx, email_data, result,
                   fetched>>

\* lines 566-574 and 588-592: fetch_email and parse_complete_email; a failure
\* of either skips the message
Fetch ==
    /\ pc = "fetch"
    /\ \E fault \in FetchFaults :
        /\ Inject(fault)
        /\ LET id == batch_ids(email_ids, batch_start, total_emails)[idx + 1]
           IN  /\ fetched' = Append(fetched, id)
               /\ IF fault = "fetch"
                  THEN pc' = "msg_check" /\ idx' = idx + 1 /\ email_data' = 0
                  ELSE pc' = "add" /\ idx' = idx /\ email_data' = id
    /\ polled' = {}
    /\ UNCHANGED <<idleInRun, exporter, disk, added, calls, export_format,
                   email_count_limit, stop_flag, stop_requested, search_result,
                   email_ids, total_emails, processed_count, batch_start,
                   result, stop_seen>>

\* line 577: processed_count += 1
next_count(count) == count + 1

\* lines 576-586: count the record and write it at once
Add ==
    /\ pc = "add"
    /\ \E fault \in AddFaults :
        /\ Inject(fault)
        /\ LET n == next_count(processed_count)
               row == Row(n, email_data)
               r == add_email(exporter, disk, row, fault)
           IN  /\ processed_count' = n
               /\ exporter' = r.ex
               /\ disk' = r.disk
               /\ added' = Append(added, Added(row, exporter, r))
               /\ calls' = Append(calls, Call("add_email", r.ret))
    /\ idx' = idx + 1
    /\ pc' = "msg_check"
    /\ UNCHANGED <<idleInRun, export_format, email_count_limit, stop_flag, stop_requested,
                   search_result, email_ids, total_emails, batch_start,
                   email_data, result, fetched, stop_seen, polled>>

\* lines 594-607: the stop check after a batch, then the next batch
PostBatch ==
    /\ pc = "post_batch"
    /\ polled' = Polls("after")
    /\ stop_seen' = (stop_seen \/ Poll(stop_flag, stop_requested))
    /\ IF post_break(Poll(stop_flag, stop_requested))
       THEN pc' = "finalize" /\ batch_start' = batch_start
       ELSE /\ batch_start' = batch_start + batch_size
            /\ pc' = IF batch_start + batch_size < total_emails
                     THEN "batch_check" ELSE "finalize"
    /\ UNCHANGED <<idleInRun, exVars, export_format, email_count_limit, stop_flag,
                   stop_requested, search_result, email_ids, total_emails,
                   processed_count, idx, email_data, result, fetched>>

\* lines 609-628: finalize; the count is returned when that succeeded
Finalize ==
    /\ pc = "finalize"
    /\ \E fault \in FinalizeFaults :
        /\ Inject(fault)
        /\ LET r == finalize_export(exporter, disk, fault)
           IN  /\ exporter' = r.ex
               /\ disk' = r.disk
               /\ calls' = Append(calls, Call("finalize_export", r.ret))
               /\ result' = IF r.ret = "True"
                            THEN Returned(returned_count(processed_count,
                                                         total_emails))
                            ELSE Raised
    /\ pc' = "finally"
    /\ UNCHANGED <<idleInRun, added, export_format, email_count_limit, stop_flag,
                   stop_requested, search_result, email_ids, total_emails,
                   processed_count, batch_start, idx, email_data, fetched,
                   stop_seen, polled>>

\* lines 634-637: the finally block
Finally ==
    /\ pc = "finally"
    /\ \E fault \in CleanupFaults :
        /\ Inject(fault)
        /\ IF cleanup_in_finally(calls # <<>>, result)
           THEN LET r == cleanup(exporter, disk, fault)
                IN  /\ exporter' = r.ex
                    /\ disk' = r.disk
                    /\ calls' = Append(calls, Call("cleanup", r.ret))
           ELSE fault = "none" /\ UNCHANGED <<exporter, disk, calls>>
    /\ pc' = "done"
    /\ UNCHANGED <<idleInRun, added, export_format, email_count_limit, stop_flag,
                   stop_requested, search_result, email_ids, total_emails,
                   processed_count, batch_start, idx, email_data, result,
                   fetched, stop_seen, polled>>

\* the caller's stop request (the GUI's cancel_export sets stop_requested)
RequestStop ==
    /\ pc \notin {"start", "done"}
    /\ ~stop_requested
    /\ stop_requested' = TRUE
    /\ UNCHANGED <<idleInRun, exVars, pc, export_format, email_count_limit, stop_flag,
                   search_result, email_ids, total_emails, processed_count,
                   batch_start, idx, email_data, result, fetched, stop_seen,
                   polled>>

Next ==
    \/ Begin
    \/ Search
    \/ BatchCheck
    \/ MsgCheck
    \/ Fetch
    \/ Add
    \/ PostBatch
    \/ Finalize
    \/ Finally
    \/ RequestStop

Spec == Init /\ [][Next]_vars

\* ------------------------------------------------------------------
\* The exporter on its own: one caller making any sequence of calls on one
\* exporter object that it initializes once (SpecEx).
RunIdle ==
    /\ pc = "idle"
    /\ export_format = "csv"
    /\ email_count_limit = 0
    /\ stop_flag = "None"
    /\ stop_requested = FALSE
    /\ search_result = <<>>
    /\ email_ids = <<>>
    /\ total_emails = 0
    /\ processed_count = 0
    /\ batch_start = 0
    /\ idx = 0
    /\ email_data = 0
    /\ result = Running
    /\ fetched = <<>>
    /\ stop_seen = FALSE
    /\ polled = {}

InitEx == ExInit /\ RunIdle /\ ConcIdle /\ RestIdle

ExInitialize ==
    /\ calls = <<>>
    /\ \E format \in Formats, fault \in InitializeFaults :
        /\ Inject(fault)
        /\ LET r == initialize_export(exporter, disk, format, fault)
           IN  /\ exporter' = r.ex
               /\ disk' = r.disk
               /\ calls' = Append(calls, Call("initialize_export", r.ret))
    /\ UNCHANGED <<added, idleInEx>>

ExAdd ==
    /\ Len(calls) < MaxCalls
    /\ \E fault \in AddFaults :
        /\ Inject(fault)
        /\ LET n == Len(added) + 1
               r == add_email(exporter, disk, Row(n, n), fault)
           IN  /\ exporter' = r.ex
               /\ disk' = r.disk
               /\ added' = Append(added, Added(Row(n, n), exporter, r))
               /\ calls' = Append(calls, Call("add_email", r.ret))
    /\ UNCHANGED idleInEx

ExFinalize ==
    /\ Len(calls) < MaxCalls
    /\ \E fault \in FinalizeFaults :
        /\ Inject(fault)
        /\ LET r == finalize_export(exporter, disk, fault)
           IN  /\ exporter' = r.ex
               /\ disk' = r.disk
               /\ calls' = Append(calls, Call("finalize_export", r.ret))
    /\ UNCHANGED <<added, idleInEx>>

ExCleanup ==
    /\ Len(calls) < MaxCalls
    /\ \E fault \in CleanupFaults :
        /\ Inject(fault)
        /\ LET r == cleanup(exporter, disk, fault)
           IN  /\ exporter' = r.ex
               /\ disk' = r.disk
               /\ calls' = Append(calls, Call("cleanup", r.ret))
    /\ UNCHANGED <<added, idleInEx>>

NextEx ==
    \/ ExInitialize
    \/ ExAdd
    \/ ExFinalize
    \/ ExCleanup

SpecEx == InitEx /\ [][NextEx]_vars

\* ------------------------------------------------------------------
\* Threads calling add_email, finalize_export and cleanup on one initialized
\* exporter (SpecConc).  is_initialized is read before the lock is taken and
\* finalize_export clears it after the lock is released; the bodies run
\* under the lock.
InitConc ==
    /\ \E format \in supported_formats :
        LET r == initialize_export(NewExporter, AbsentFile, format, "none")
        IN  /\ exporter = r.ex
            /\ disk = r.disk
            /\ calls = <<Call("initialize_export", r.ret)>>
    /\ faults = 0
    /\ added = <<>>
    /\ RunIdle
    /\ ConcIdle
    /\ RestIdle

InFlight == Cardinality({t \in Threads : tpc[t] # "idle"})

MayCall(t) == tpc[t] = "idle" /\ Len(calls) + InFlight < MaxConcCalls + 1

Acquire(t, from, to) ==
    /\ tpc[t] = from
    /\ lock = 0
    /\ lock' = t
    /\ tpc' = [tpc EXCEPT ![t] = to]

\* the session is closed or reset from now on
Closed == IF closed_at = -1 THEN Len(added) ELSE closed_at

\* add_email, lines 98-99: the test of is_initialized
AddCheck(t) ==
    /\ MayCall(t)
    /\ IF add_email_guard(exporter)
       THEN /\ tpc' = [tpc EXCEPT ![t] = "add_lock"]
            /\ UNCHANGED <<added, calls>>
       ELSE LET n == Len(added) + 1
            IN  /\ added' = Append(added, Added(Row(n, n), exporter,
                                                R(exporter, disk, "False")))
                /\ calls' = Append(calls, Call("add_email", "False"))
                /\ tpc' = tpc
    /\ UNCHANGED <<exporter, disk, faults, lock, tret, closed_at, idleInConc>>

\* add_email, line 102: with self.lock
AddAcquire(t) ==
    /\ Acquire(t, "add_lock", "add_body")
    /\ UNCHANGED <<exVars, tret, closed_at, idleInConc>>

\* add_email, lines 103-111: the body, and the return
AddBody(t) ==
    /\ tpc[t] = "add_body"
    /\ lock = t
    /\ \E fault \in AddFaults :
        /\ Inject(fault)
        /\ LET n == Len(added) + 1
               r == add_email_locked(exporter, disk, Row(n, n), fault)
           IN  /\ exporter' = r.ex
               /\ disk' = r.disk
               /\ added' = Append(added, Added(Row(n, n), exporter, r))
               /\ calls' = Append(calls, Call("add_email", r.ret))
    /\ lock' = 0
    /\ tpc' = [tpc EXCEPT ![t] = "idle"]
    /\ UNCHANGED <<tret, closed_at, idleInConc>>

\* finalize_export, lines 179-180: the test of is_initialized
FinCheck(t) ==
    /\ MayCall(t)
    /\ IF exporter.is_initialized
       THEN tpc' = [tpc EXCEPT ![t] = "fin_lock"] /\ calls' = calls
       ELSE tpc' = tpc /\ calls' = Append(calls, Call("finalize_export", "False"))
    /\ UNCHANGED <<exporter, disk, faults, added, lock, tret, closed_at,
                   idleInConc>>

\* finalize_export, line 183: with self.lock
FinAcquire(t) ==
    /\ Acquire(t, "fin_lock", "fin_body")
    /\ UNCHANGED <<exVars, tret, closed_at, idleInConc>>

\* finalize_export, lines 184-190: the body
FinBody(t) ==
    /\ tpc[t] = "fin_body"
    /\ lock = t
    /\ \E fault \in FinalizeFaults :
        /\ Inject(fault)
        /\ LET r == finalize_export_locked(exporter, disk, fault)
           IN  /\ exporter' = r.ex
               /\ disk' = r.disk
               /\ tret' = [tret EXCEPT ![t] = r.ret]
               /\ closed_at' = IF r.ret = "True" THEN Closed ELSE closed_at
    /\ lock' = 0
    /\ tpc' = [tpc EXCEPT ![t] = "fin_finally"]
    /\ UNCHANGED <<added, calls, idleInConc>>

\* finalize_export, lines 191-192: the finally block, and the return
FinFinally(t) ==
    /\ tpc[t] = "fin_finally"
    /\ exporter' = [exporter EXCEPT !.is_initialized = FALSE]
    /\ calls' = Append(calls, Call("finalize_export", tret[t]))
    /\ tpc' = [tpc EXCEPT ![t] = "idle"]
    /\ tret' = [tret EXCEPT ![t] = "None"]
    /\ UNCHANGED <<disk, faults, added, lock, closed_at, idleInConc>>

\* cleanup, line 225: with self.lock
CleanupAcquire(t) ==
    /\ MayCall(t)
    /\ Acquire(t, "idle", "cleanup_body")
    /\ UNCHANGED <<exVars, tret, closed_at, idleInConc>>

\* cleanup, lines 226-233: the body, and the return
CleanupBody(t) ==
    /\ tpc[t] = "cleanup_body"
    /\ lock = t
    /\ \E fault \in CleanupFaults :
        /\ Inject(fault)
        /\ LET r == cleanup_locked(exporter, disk, fault)
           IN  /\ exporter' = r.ex
               /\ disk' = r.disk
               /\ calls' = Append(calls, Call("cleanup", "None"))
    /\ closed_at' = Closed
    /\ lock' = 0
    /\ tpc' = [tpc EXCEPT ![t] = "idle"]
    /\ UNCHANGED <<added, tret, idleInConc>>

NextConc ==
    \E t \in Threads :
        \/ AddCheck(t)
        \/ AddAcquire(t)
        \/ AddBody(t)
        \/ FinCheck(t)
        \/ FinAcquire(t)
        \/ FinBody(t)
        \/ FinFinally(t)
        \/ CleanupAcquire(t)
        \/ CleanupBody(t)

SpecConc == InitConc /\ [][NextConc]_vars

\* ===================================================== claims, Spec
Last(s) == s[Len(s)]

\* the data records a file holds: a CSV file has them after its header row
Records(d) ==
    IF d.kind = "csv" /\ d.rows # <<>> /\ Head(d.rows) = HeaderRow
    THEN Tail(d.rows)
    ELSE d.rows

\* C1: a run that returns normally returns the number of add_email calls that
\* returned success, which is the number of records in the finalized file.
C1_ReturnedCountIsWrittenCount ==
    (pc = "done" /\ result.kind = "return") =>
        /\ result.value = Len(SelectOk(added))
        /\ result.value = Len(Records(disk))

\* C2: the sequence numbers of the records in the output file are 1..k in
\* file order, whatever failed.
C2_SequenceNumbersGapless ==
    \A i \in 1..Len(Records(disk)) : Records(disk)[i][1] = i

\* a poll made before the last message was fetched returned true
StoppedPartWay == stop_seen /\ Len(fetched) < total_emails

C4_StopPolledAndObeyed ==
    [][/\ (fetched' # fetched /\ stop_flag = "callable") =>
            /\ "message" \in polled
            /\ idx = 0 => "batch" \in polled
       /\ stop_seen => (fetched' = fetched /\ added' = added)
       /\ (pc = "add" /\ pc' # pc) =>
            (Len(added') = Len(added) + 1 /\ polled' = polled)
       /\ IsPrefix(disk.rows, disk'.rows)]_vars

C4_Witness ==
    /\ pc = "done"
    /\ stop_seen
    /\ Len(fetched) >= 1
    /\ Len(fetched) < total_emails
    /\ Len(Records(disk)) = Len(fetched)

\* C5: when the function has exited, the last exporter call was cleanup(),
\* and a run that went through the loop called finalize_export() just
\* before it.
C5_FinalizeThenCleanup ==
    pc = "done" =>
        /\ Last(calls).op = "cleanup"
        /\ total_emails > 0 => calls[Len(calls) - 1].op = "finalize_export"

C5_Witness ==
    /\ pc = "done"
    /\ result.kind = "raise"
    /\ total_emails > 0
    /\ Last(calls).op = "cleanup"

\* the identifiers the limit keeps: the last M of T, or all of them
Expected ==
    LET T == Len(search_result)
        M == email_count_limit
    IN  IF M > 0 /\ T > M THEN [k \in 1..M |-> search_result[T - M + k]]
        ELSE search_result

\* C8: the messages fetched are, in order, the last M identifiers of the
\* search result when 0 < M < T, and all T otherwise: always a prefix of
\* them, and all of them when the loop ran to its end.
C8_LimitKeepsLastIds ==
    /\ IsPrefix(fetched, Expected)
    /\ (pc \in {"finalize", "finally", "done"} /\ total_emails > 0
            /\ ~stop_seen) => fetched = Expected

C8_Witness ==
    /\ pc = "done"
    /\ email_count_limit > 1
    /\ Len(search_result) > email_count_limit
    /\ Len(fetched) = email_count_limit

\* ==================================================== claims, SpecEx
RECURSIVE SelectKept(_)
\* the rows that reached the file object or the JSON list, in call order
SelectKept(log) ==
    IF log = <<>> THEN <<>>
    ELSE IF Head(log).kept THEN <<Head(log).row>> \o SelectKept(Tail(log))
         ELSE SelectKept(Tail(log))

\* the calls so far are a successful initialize_export, then add_email
\* calls that all returned success
InitThenAdds(cs) ==
    /\ cs # <<>>
    /\ cs[1] = Call("initialize_export", "True")
    /\ \A i \in 2..Len(cs) : cs[i] = Call("add_email", "True")

FileKind == IF exporter.format_type = "csv" THEN "csv" ELSE "json"

AfterCsvWrite ==
    /\ calls # <<>>
    /\ calls[1] = Call("initialize_export", "True")
    /\ exporter.format_type = "csv"
    /\ Last(calls) \in {Call("initialize_export", "True"),
                        Call("add_email", "True")}

\* C7 as stated: in CSV mode, after initialize_export and after each
\* successful add_email the file on disk is the header row followed by
\* exactly the rows of the successful add_email calls, in call order.
C7_DiskHasExactlySuccessfulRows ==
    AfterCsvWrite => disk = [kind |-> "csv",
                             rows |-> <<HeaderRow>> \o SelectOk(added)]

\* C7 amended: the file on disk is the header row followed by the rows
\* handed to the file so far, in call order: the row of every successful
\* add_email, and also the row of a call that failed in its flush.
C7_DiskHasEveryWrittenRow ==
    AfterCsvWrite =>
        /\ disk = [kind |-> "csv", rows |-> <<HeaderRow>> \o SelectKept(added)]
        /\ exporter.pending = <<>>
        /\ \A i \in 1..Len(added) :
            added[i].ok => \E j \in 1..Len(disk.rows) : disk.rows[j] = added[i].row

C7_Witness ==
    /\ AfterCsvWrite
    /\ Len(SelectOk(added)) >= 2
    /\ Len(disk.rows) = 3

\* C10: add_email on an exporter that is not initialized returns failure
\* and changes neither the exporter nor the file.
C10_AddOnUninitializedIsNoOp ==
    [][(Len(calls') = Len(calls) + 1 /\ Last(calls').op = "add_email"
            /\ ~exporter.is_initialized) =>
        /\ Last(calls').ret = "False"
        /\ exporter' = exporter
        /\ disk' = disk]_vars

C10_Witness ==
    /\ Len(calls) >= 3
    /\ Last(calls) = Call("add_email", "False")
    /\ calls[Len(calls) - 1].op = "finalize_export"
    /\ ~exporter.is_initialized
    /\ exporter.json_data.present

\* ================================================== claims, SpecConc
\* C9: whatever the interleaving of add_email, finalize_export and cleanup
\* calls of several threads, no call raises, no add_email that ran after the
\* session was closed or reset returned success, and the record of every
\* add_email that returned success before a successful finalize_export is
\* in the file.
C9_ConcurrentCallsSafe ==
    /\ \A i \in 1..Len(calls) : calls[i].ret # "exc"
    /\ closed_at >= 0 =>
        \A i \in (closed_at + 1)..Len(added) : ~added[i].ok
    /\ (Last(calls) = Call("finalize_export", "True")) =>
        \A i \in 1..Len(added) :
            added[i].ok =>
                \E j \in 1..Len(Records(disk)) : Records(disk)[j] = added[i].row

\* ============================================ claims, SpecEx (continued)
\* the step is a call of op
Calls(op) == Len(calls') = Len(calls) + 1 /\ Last(calls').op = op

\* C11: after finalize_export returns, with success or failure, the
\* exporter is not initialized; finalize_export on an exporter that is not
\* initialized returns failure and leaves the file as it is.
C11_FinalizeClearsInitialized ==
    [][Calls("finalize_export") =>
        /\ ~exporter'.is_initialized
        /\ ~exporter.is_initialized =>
            /\ Last(calls').ret = "False"
            /\ disk' = disk
            /\ exporter' = exporter]_vars

C11_Witness ==
    /\ Len(calls) >= 4
    /\ calls[1] = Call("initialize_export", "True")
    /\ calls[Len(calls) - 1] = Call("finalize_export", "False")
    /\ calls[Len(calls) - 2].op = "add_email"
    /\ Last(calls) = Call("finalize_export", "False")
    /\ disk.kind = "torn"

\* no handle, no writer, no JSON buffer, not initialized
IsReset(ex) ==
    /\ ex.current_file = "None"
    /\ ex.csv_writer = "None"
    /\ ~ex.json_data.present
    /\ ~ex.is_initialized

\* C12: cleanup() never raises, leaves the exporter reset in every state it
\* is called in, changes nothing when called a second time, and leaves a
\* finalized file as it is.
C12_CleanupResetsAndIsIdempotent ==
    [][Calls("cleanup") =>
        /\ Last(calls').ret # "exc"
        /\ IsReset(exporter')
        /\ (calls # <<>> /\ Last(calls).op = "cleanup") =>
            (exporter' = exporter /\ disk' = disk)
        /\ (calls # <<>> /\ Last(calls) = Call("finalize_export", "True")) =>
            disk' = disk]_vars

\* ------------------------------------------------------------------
\* GmailOAuth (oauth_gmail.py) and MailClient._oauth_login
\*
\* An access token is an identifier; the server issues tokens 1, 2, ...  A
\* token issued at time t expires at t + 1.  The token file is "absent",
\* "garbage" (neither format can be read from it), "standard" (written by
\* Credentials.to_json) or "simplified" (it has the key access_token and
\* from_authorized_user_file raises on it).  The field full of a file says
\* whether the scopes recorded in it hold every scope of SCOPES.
\* What the network and the file system do during one call is the input e:
\* refresh and flow are what the server answers, save and remove whether the
\* token file can be written and deleted, imap what the IMAP server answers.
\* The state an operation works on is a record a: cred and file, and what
\* happened in the call (ret, refreshed, invalid, flow, used, fresh).

\* the authenticator state an operation starts from
A(cred, file, iss) ==
    [cred |-> cred, file |-> file, issued |-> iss, ret |-> "None",
     refreshed |-> "no", invalid |-> FALSE, flow |-> "not_run",
     used |-> NoneCred, fresh |-> {}]

\* Credentials.expired
expired(c, t) == c.expiry # NoExpiry /\ t >= c.expiry

\* Credentials.valid: the token is set and not expired
valid(c, t) == c.present /\ ~expired(c, t)

_validate_token_scopes(c) == c.present /\ c.full

\* Credentials.to_json(): refresh_token is left out when it is None
StandardFile(c) ==
    [kind |-> "standard", tok |-> c.tok, expiry |-> c.expiry,
     refresh |-> c.refresh, full |-> c.full]

_save_token(a, e) ==
    IF ~a.cred.present THEN [a EXCEPT !.ret = "None"]
    ELSE IF e.save = "fail" THEN [a EXCEPT !.ret = "exc"]
    ELSE [a EXCEPT !.file = StandardFile(a.cred), !.ret = "None"]

\* if os.path.exists(token_file): try: os.remove(token_file) except: pass
_cleanup_invalid_token(a, e) ==
    IF a.file.kind # "absent" /\ e.remove = "ok"
    THEN [a EXCEPT !.file = AbsentToken]
    ELSE a

_refresh_token(a, e, t) ==
    IF a.cred.present /\ expired(a.cred, t) /\ a.cred.refresh
    THEN IF e.refresh = "ok"
         THEN LET r == [a EXCEPT !.cred = Cred(a.issued + 1, t + 1, TRUE,
                                               a.cred.full),
                                 !.issued = a.issued + 1,
                                 !.fresh = a.fresh \cup {a.issued + 1}]
                  s == _save_token(r, e)
              IN  IF s.ret = "exc"
                  THEN [_cleanup_invalid_token(r, e) EXCEPT
                           !.ret = "False", !.refreshed = "failed"]
                  ELSE [s EXCEPT !.ret = "True", !.refreshed = "ok"]
         ELSE [_cleanup_invalid_token(a, e) EXCEPT
                  !.ret = "False", !.refreshed = "failed"]
    ELSE [a EXCEPT !.ret = "False"]

\* lines 159-169 and 189-197: the checks made on the credentials just loaded
check_loaded(a, e, t) ==
    IF expired(a.cred, t) /\ a.cred.refresh
    THEN LET r == _refresh_token(a, e, t)
         IN  IF r.ret = "True" THEN r ELSE [r EXCEPT !.ret = "False"]
    ELSE IF valid(a.cred, t)
    THEN IF _validate_token_scopes(a.cred) THEN [a EXCEPT !.ret = "True"]
         ELSE [a EXCEPT !.ret = "False", !.invalid = TRUE]
    ELSE [a EXCEPT !.ret = "False", !.invalid = TRUE]

\* from_authorized_user_file(token_file, SCOPES) needs the key refresh_token
\* and gives the credentials the scopes it is passed, not those of the file
_load_existing_token(a, e, t) ==
    IF a.file.kind = "absent" THEN [a EXCEPT !.ret = "False"]
    ELSE IF a.file.kind = "standard" /\ a.file.refresh
    THEN check_loaded([a EXCEPT !.cred = Cred(a.file.tok, a.file.expiry,
                                              TRUE, TRUE)], e, t)
    ELSE IF a.file.kind = "simplified"
    THEN check_loaded([a EXCEPT !.cred = Cred(a.file.tok, NoExpiry,
                                              a.file.refresh, a.file.full)],
                      e, t)
    ELSE [a EXCEPT !.ret = "False"]

\* what the interactive flow can end in, seen from its caller: "raise" is any
\* path that raises and leaves the token file alone
FlowOutcomes == {"raise", "scope_changed", "granted_full", "granted_narrow"}

_perform_oauth_flow(a, e, t) ==
    IF e.flow = "raise" THEN [a EXCEPT !.ret = "exc", !.flow = e.flow]
    ELSE IF e.flow = "scope_changed"
    THEN [_cleanup_invalid_token(a, e) EXCEPT !.ret = "exc", !.flow = e.flow]
    ELSE LET c == Cred(a.issued + 1, t + 1, TRUE, e.flow = "granted_full")
             s == _save_token([a EXCEPT !.cred = c,
                                        !.issued = a.issued + 1], e)
         IN  IF s.ret = "exc" THEN [s EXCEPT !.flow = e.flow]
             ELSE [s EXCEPT !.ret = "True", !.flow = e.flow]

\* faulty variant: force_reauth is ignored, the cached token is tried first
authenticate_cached_first(a, e, t, client, force_reauth) ==
    IF ~client THEN [a EXCEPT !.ret = "exc"]
    ELSE LET l == _load_existing_token(a, e, t)
         IN  IF l.ret = "True" /\ valid(l.cred, t)
             THEN LET s == _save_token(l, e)
                  IN  IF s.ret = "exc" THEN s ELSE [s EXCEPT !.ret = "True"]
             ELSE _perform_oauth_flow(_cleanup_invalid_token(l, e), e, t)

authenticate(a, e, t, client, force_reauth) ==
    IF ~client THEN [a EXCEPT !.ret = "exc"]
    ELSE IF force_reauth
    THEN _perform_oauth_flow(_cleanup_invalid_token(a, e), e, t)
    ELSE LET l == _load_existing_token(a, e, t)
             flow == _perform_oauth_flow(_cleanup_invalid_token(l, e), e, t)
         IN  IF l.ret = "True"
             THEN IF valid(l.cred, t)
                  THEN LET s == _save_token(l, e)
                       IN  IF s.ret = "exc" THEN s
                           ELSE [s EXCEPT !.ret = "True"]
                  ELSE IF expired(l.cred, t) /\ l.cred.refresh
                  THEN LET r == _refresh_token(l, e, t)
                       IN  IF r.ret = "True" THEN r
                           ELSE _perform_oauth_flow(
                                    _cleanup_invalid_token(r, e), e, t)
                  ELSE flow
             ELSE flow

get_oauth_string(a, e, t) ==
    IF ~a.cred.present THEN [a EXCEPT !.ret = "exc"]
    ELSE LET r == IF expired(a.cred, t) /\ a.cred.refresh
                  THEN _refresh_token(a, e, t)
                  ELSE a
         IN  IF expired(a.cred, t) /\ (~a.cred.refresh \/ r.ret # "True")
             THEN [r EXCEPT !.ret = "exc"]
             ELSE IF ~valid(r.cred, t) THEN [r EXCEPT !.ret = "exc"]
             ELSE [r EXCEPT !.ret = "string", !.used = r.cred]

revoke_token(a, e) ==
    IF a.cred.present
    THEN IF a.file.kind # "absent" /\ e.remove = "fail"
         THEN [a EXCEPT !.ret = "False"]
         ELSE [a EXCEPT !.file = AbsentToken, !.cred = NoneCred,
                        !.ret = "True"]
    ELSE [a EXCEPT !.ret = "False"]

is_authenticated(c, t) == c.present /\ valid(c, t)

\* MailClient._oauth_login with self.gmail_oauth already constructed
_oauth_login(a, e, t, client) ==
    LET b == IF is_authenticated(a.cred, t) THEN a
             ELSE authenticate(a, e, t, client, FALSE)
        g == get_oauth_string(b, e, t)
    IN  IF ~is_authenticated(a.cred, t) /\ b.ret # "True"
        THEN [b EXCEPT !.ret = "exc"]
        ELSE IF g.ret = "exc" THEN g
        ELSE IF e.imap = "fail" THEN [g EXCEPT !.ret = "exc"]
        ELSE [g EXCEPT !.ret = "None"]

\* ---- one authenticator object, its callers calling one operation at a time
Outcomes == {"ok", "fail"}

Env(refresh, save, remove, flow, imap) ==
    [refresh |-> refresh, save |-> save, remove |-> remove, flow |-> flow,
     imap |-> imap]

\* the token files the constructor can find; the token in a file is token 1
TokenFiles ==
    {AbsentToken, [AbsentToken EXCEPT !.kind = "garbage"]}
    \cup {[kind |-> "standard", tok |-> 1, expiry |-> x, refresh |-> r,
           full |-> f] : x \in {0, 1}, r \in BOOLEAN, f \in BOOLEAN}
    \cup {[kind |-> "simplified", tok |-> 1, expiry |-> NoExpiry,
           refresh |-> r, full |-> f] : r \in BOOLEAN, f \in BOOLEAN}

InitOAuth ==
    /\ ExInit /\ RunIdle /\ ConcIdle /\ FlowIdle /\ ConnIdle /\ LaterIdle
    /\ token_file \in TokenFiles
    /\ credentials = NoneCred
    /\ now = 0
    /\ issued = 1
    /\ has_client \in BOOLEAN
    /\ oauth_pc = "new"
    /\ olast = NoOp
    /\ by_refresh = {}

\* the operation op ended in the state r
Ends(op, force, r) ==
    /\ r.issued <= MaxTokens
    /\ credentials' = r.cred
    /\ token_file' = r.file
    /\ issued' = r.issued
    /\ olast' = [op |-> op, force |-> force, ret |-> r.ret,
                 refreshed |-> r.refreshed, invalid |-> r.invalid,
                 flow |-> r.flow, used |-> r.used]
    /\ by_refresh' = by_refresh \cup r.fresh
    /\ UNCHANGED <<now, has_client>>
    /\ UNCHANGED idleInOAuth

\* GmailOAuth.__init__: credentials = None, then _load_existing_token()
Construct ==
    /\ oauth_pc = "new"
    /\ oauth_pc' = "ready"
    /\ \E refresh \in Outcomes, save \in Outcomes, remove \in Outcomes :
        Ends("construct", FALSE,
             _load_existing_token(A(NoneCred, token_file, issued),
                 Env(refresh, save, remove, "raise", "fail"), now))

OAuthLoad ==
    /\ oauth_pc = "ready"
    /\ UNCHANGED oauth_pc
    /\ \E refresh \in Outcomes, save \in Outcomes, remove \in Outcomes :
        Ends("_load_existing_token", FALSE,
             _load_existing_token(A(credentials, token_file, issued),
                 Env(refresh, save, remove, "raise", "fail"), now))

OAuthRefresh ==
    /\ oauth_pc = "ready"
    /\ UNCHANGED oauth_pc
    /\ \E refresh \in Outcomes, save \in Outcomes, remove \in Outcomes :
        Ends("_refresh_token", FALSE,
             _refresh_token(A(credentials, token_file, issued),
                 Env(refresh, save, remove, "raise", "fail"), now))

Authenticate ==
    /\ oauth_pc = "ready"
    /\ UNCHANGED oauth_pc
    /\ \E refresh \in Outcomes, save \in Outcomes, remove \in Outcomes,
          flow \in FlowOutcomes, force_reauth \in BOOLEAN :
        Ends("authenticate", force_reauth,
             authenticate(A(credentials, token_file, issued),
                 Env(refresh, save, remove, flow, "fail"), now, has_client,
                 force_reauth))

GetOAuthString ==
    /\ oauth_pc = "ready"
    /\ UNCHANGED oauth_pc
    /\ \E refresh \in Outcomes, save \in Outcomes, remove \in Outcomes :
        Ends("get_oauth_string", FALSE,
             get_oauth_string(A(credentials, token_file, issued),
                 Env(refresh, save, remove, "raise", "fail"), now))

RevokeToken ==
    /\ oauth_pc = "ready"
    /\ UNCHANGED oauth_pc
    /\ \E remove \in Outcomes :
        Ends("revoke_token", FALSE,
             revoke_token(A(credentials, token_file, issued),
                 Env("fail", "fail", remove, "raise", "fail")))

OAuthLogin ==
    /\ oauth_pc = "ready"
    /\ UNCHANGED oauth_pc
    /\ \E refresh \in Outcomes, save \in Outcomes, remove \in Outcomes,
          flow \in FlowOutcomes, imap \in Outcomes :
        Ends("_oauth_login", FALSE,
             _oauth_login(A(credentials, token_file, issued),
                 Env(refresh, save, remove, flow, imap), now, has_client))

\* time passes between two operations
Tick ==
    /\ oauth_pc = "ready"
    /\ now < MaxClock
    /\ now' = now + 1
    /\ UNCHANGED <<token_file, credentials, issued, has_client, oauth_pc,
                   olast, by_refresh>>
    /\ UNCHANGED idleInOAuth

NextOAuth ==
    \/ Construct
    \/ OAuthLoad
    \/ OAuthRefresh
    \/ Authenticate
    \/ GetOAuthString
    \/ RevokeToken
    \/ OAuthLogin
    \/ Tick

SpecOAuth == InitOAuth /\ [][NextOAuth]_vars

\* ------------------------------------------------------------------
\* claims, SpecOAuth

\* the step is an operation of the authenticator (and not the clock)
OAuthStep == now' = now /\ oauth_pc' = "ready"

\* C13: a token is placed in an XOAUTH2 string only if it is unexpired and
\* either carries the full required scope set or was obtained by a refresh;
\* and constructing the authenticator on a token file whose scopes are
\* narrower than required leaves is_authenticated() false as long as the
\* credentials hold the token of the file.
C13_TokenUsedOnlyIfValidated ==
    [][OAuthStep =>
        /\ olast'.used.present =>
            /\ ~expired(olast'.used, now')
            /\ olast'.used.full \/ olast'.used.tok \in by_refresh'
        /\ (/\ oauth_pc = "new"
            /\ token_file.kind \in {"standard", "simplified"}
            /\ ~token_file.full
            /\ credentials'.tok = token_file.tok) =>
                ~is_authenticated(credentials', now')]_vars

\* the token file holds the credentials c
FileHolds(f, c) == c.present /\ f = StandardFile(c)

Granted == {"granted_full", "granted_narrow"}

\* C14: when authenticate() returned true or a refresh succeeded in the
\* operation, the token file holds the credentials now in memory; when a
\* refresh failed or a loaded token failed its validation (and no new token
\* was granted since), the token file is absent.
C14_TokenFileMatchesOutcome ==
    [][OAuthStep =>
        /\ ((olast'.op = "authenticate" /\ olast'.ret = "True")
                \/ olast'.refreshed = "ok") =>
            FileHolds(token_file', credentials')
        /\ ((olast'.refreshed = "failed" \/ olast'.invalid)
                /\ olast'.flow \notin Granted) =>
            token_file'.kind = "absent"]_vars

\* the step is a call of authenticate(force_reauth=True)
ForcedReauth ==
    OAuthStep /\ olast'.op = "authenticate" /\ olast'.force

\* C15 as stated: authenticate(force_reauth=True) leaves no token file other
\* than one written by the flow it ran, always runs the interactive flow, and
\* returns true only with a token the flow has just been granted.
C15_ForcedReauthDeletesAndRunsFlow ==
    [][ForcedReauth =>
        /\ olast'.flow # "not_run"
        /\ \/ token_file'.kind = "absent"
           \/ olast'.flow \in Granted /\ FileHolds(token_file', credentials')
        /\ olast'.ret = "True" =>
            olast'.flow \in Granted /\ credentials'.tok = issued + 1]_vars

\* C15: authenticate(force_reauth=True) raises at once, changing nothing, when
\* the client id or secret is missing; otherwise it tries to delete the token
\* file (the file stays when the deletion fails), never refreshes or validates
\* the cached token, and runs the interactive flow; it returns true only with
\* a token the flow has just been granted, which the token file then holds,
\* and raises in every other case.
C15_ForcedReauthNeverUsesCachedToken ==
    [][ForcedReauth =>
        /\ ~has_client =>
            /\ olast'.ret = "exc" /\ olast'.flow = "not_run"
            /\ token_file' = token_file /\ credentials' = credentials
        /\ has_client => olast'.flow # "not_run"
        /\ olast'.refreshed = "no" /\ ~olast'.invalid
        /\ olast'.ret \in {"True", "exc"}
        /\ olast'.ret = "True" =>
            /\ olast'.flow \in Granted
            /\ credentials'.tok = issued + 1
            /\ FileHolds(token_file', credentials')
        /\ olast'.ret = "exc" => token_file' \in {AbsentToken, token_file}]_vars

C15_Witness ==
    /\ olast.op = "authenticate" /\ olast.force /\ olast.ret = "True"
    /\ has_client
    /\ olast.flow \in Granted
    /\ credentials.tok > 1
    /\ FileHolds(token_file, credentials)

\* C16: after revoke_token(), whatever the state it was called in, the token
\* file is absent and the credentials in memory are cleared.
C16_RevokeClearsFileAndCredentials ==
    [][(OAuthStep /\ olast'.op = "revoke_token") =>
        /\ token_file'.kind = "absent"
        /\ ~credentials'.present]_vars

\* ------------------------------------------------------------------
\* GmailOAuth._perform_oauth_flow, statement by statement, with the callback
\* listener serving requests in its own thread.  Time is counted in half
\* seconds (the polling interval); elapsed is time.time() - start_time.
\* Every exception raised inside is re-raised by the outer handler (line 407)
\* with the message of the original one; flow_result keeps the original kind.

InitFlow ==
    /\ ExInit /\ RunIdle /\ ConcIdle /\ ConnIdle /\ LaterIdle
    /\ token_file \in {AbsentToken, StandardFile(Cred(1, 1, TRUE, TRUE))}
    /\ credentials = NoneCred
    /\ now = 0
    /\ issued = 1
    /\ has_client = TRUE
    /\ oauth_pc = "ready"
    /\ olast = NoOp
    /\ by_refresh = {}
    /\ flow_pc = "start"
    /\ server = "none"
    /\ browser = "none"
    /\ auth_code = "None"
    /\ auth_error = "None"
    /\ elapsed = 0
    /\ flow_result = FlowRunning
    /\ exchanged = FALSE

\* OAuthCallbackHandler.do_GET: what a request leaves in
\* <<server.auth_code, server.auth_error>>
do_GET(code, error, request) ==
    IF request = "callback_with_code" THEN <<"code", error>>
    ELSE IF request = "callback_without_code" THEN <<code, "error">>
    ELSE <<code, error>>

Requests == {"callback_with_code", "callback_without_code", "other_path"}

\* line 332: time.time() - start_time > timeout
timed_out(el) == el > 2 * timeout

\* faulty variant: the clock read by the loop does not advance
after_sleep_frozen(el, over) == el

\* line 336: time.sleep(0.5), which may take longer
after_sleep(el, over) == el + 1 + over

\* faulty variant: the listener is shut down only when the flow succeeded
shutdown_on_success(res) == res.kind = "return"

\* lines 403-404: finally: server.shutdown()
shutdown_in_finally(res) == TRUE

\* what fetch_token can answer
ExchangeOutcomes ==
    {"granted_full", "granted_narrow", "scope_changed", "invalid_grant",
     "access_denied", "other"}

FlowIdleOAuth == UNCHANGED <<token_file, credentials, now, issued, has_client,
                             oauth_pc, olast, by_refresh>>

\* lines 287-299: Flow.from_client_config
FlowConfig ==
    /\ flow_pc = "start"
    /\ \E ok \in BOOLEAN :
        IF ok THEN flow_pc' = "listen" /\ UNCHANGED flow_result
        ELSE flow_pc' = "done" /\ flow_result' = FlowRaised("config")
    /\ UNCHANGED <<server, browser, auth_code, auth_error, elapsed, exchanged>>
    /\ FlowIdleOAuth
    /\ UNCHANGED idleInFlow

\* line 302 and _start_callback_server
StartServer ==
    /\ flow_pc = "listen"
    /\ \E ok \in BOOLEAN :
        IF ok
        THEN /\ flow_pc' = "url"
             /\ server' = "serving"
             /\ auth_code' = "None"
             /\ auth_error' = "None"
             /\ UNCHANGED flow_result
        ELSE /\ flow_pc' = "done"
             /\ flow_result' = FlowRaised("listen")
             /\ UNCHANGED <<server, auth_code, auth_error>>
    /\ UNCHANGED <<browser, elapsed, exchanged>>
    /\ FlowIdleOAuth
    /\ UNCHANGED idleInFlow

\* lines 306-310: flow.authorization_url
AuthorizationUrl ==
    /\ flow_pc = "url"
    /\ \E ok \in BOOLEAN :
        IF ok THEN flow_pc' = "browser" /\ UNCHANGED flow_result
        ELSE flow_pc' = "finally" /\ flow_result' = FlowRaised("url")
    /\ UNCHANGED <<server, browser, auth_code, auth_error, elapsed, exchanged>>
    /\ FlowIdleOAuth
    /\ UNCHANGED idleInFlow

\* lines 316-326: webbrowser.open (an exception is caught), start_time
OpenBrowser ==
    /\ flow_pc = "browser"
    /\ browser' \in {"opened", "failed"}
    /\ elapsed' = 0
    /\ flow_pc' = "poll"
    /\ UNCHANGED <<server, auth_code, auth_error, flow_result, exchanged>>
    /\ FlowIdleOAuth
    /\ UNCHANGED idleInFlow

\* lines 331-336: one turn of the polling loop
PollCallback ==
    /\ flow_pc = "poll"
    /\ IF auth_code = "None" /\ auth_error = "None"
       THEN IF timed_out(elapsed)
            THEN /\ flow_pc' = "finally"
                 /\ flow_result' = FlowRaised("timeout")
                 /\ UNCHANGED elapsed
            ELSE /\ \E over \in 0..MaxOversleep :
                     elapsed' = after_sleep(elapsed, over)
                 /\ UNCHANGED <<flow_pc, flow_result>>
       ELSE /\ flow_pc' = "check"
            /\ UNCHANGED <<elapsed, flow_result>>
    /\ UNCHANGED <<server, browser, auth_code, auth_error, exchanged>>
    /\ FlowIdleOAuth
    /\ UNCHANGED idleInFlow

\* lines 338-346
CheckCallback ==
    /\ flow_pc = "check"
    /\ IF auth_error # "None"
       THEN flow_pc' = "finally" /\ flow_result' = FlowRaised("authorization")
       ELSE IF auth_code = "None"
       THEN flow_pc' = "finally" /\ flow_result' = FlowRaised("no_code")
       ELSE flow_pc' = "exchange" /\ UNCHANGED flow_result
    /\ UNCHANGED <<server, browser, auth_code, auth_error, elapsed, exchanged>>
    /\ FlowIdleOAuth
    /\ UNCHANGED idleInFlow

\* lines 352-393: flow.fetch_token(code) and the handling of its errors
ExchangeCode ==
    /\ flow_pc = "exchange"
    /\ \E answer \in ExchangeOutcomes, remove \in Outcomes :
        IF answer \in Granted
        THEN /\ issued < MaxTokens
             /\ credentials' = Cred(issued + 1, now + 1, TRUE,
                                    answer = "granted_full")
             /\ issued' = issued + 1
             /\ exchanged' = TRUE
             /\ flow_pc' = "save"
             /\ UNCHANGED <<token_file, flow_result>>
        ELSE /\ token_file' =
                    IF answer = "scope_changed"
                    THEN _cleanup_invalid_token(
                             A(credentials, token_file, issued),
                             Env("fail", "fail", remove, answer, "fail")).file
                    ELSE token_file
             /\ flow_pc' = "finally"
             /\ flow_result' = FlowRaised("exchange")
             /\ UNCHANGED <<credentials, issued, exchanged>>
    /\ UNCHANGED <<now, has_client, oauth_pc, olast, by_refresh>>
    /\ UNCHANGED <<server, browser, auth_code, auth_error, elapsed>>
    /\ UNCHANGED idleInFlow

\* lines 396-401: _save_token(), return True
SaveToken ==
    /\ flow_pc = "save"
    /\ \E save \in Outcomes :
        LET s == _save_token(A(credentials, token_file, issued),
                             Env("fail", save, "fail", "raise", "fail"))
        IN  /\ token_file' = s.file
            /\ flow_result' = IF s.ret = "exc" THEN FlowRaised("save")
                               ELSE FlowReturned
    /\ flow_pc' = "finally"
    /\ UNCHANGED <<credentials, now, issued, has_client, oauth_pc, olast,
                   by_refresh>>
    /\ UNCHANGED <<server, browser, auth_code, auth_error, elapsed, exchanged>>
    /\ UNCHANGED idleInFlow

\* lines 403-407: the finally block, then the result leaves the function
FlowFinally ==
    /\ flow_pc = "finally"
    /\ server' = IF shutdown_in_finally(flow_result) THEN "shutdown"
                  ELSE server
    /\ flow_pc' = "done"
    /\ UNCHANGED <<browser, auth_code, auth_error, elapsed, flow_result,
                   exchanged>>
    /\ FlowIdleOAuth
    /\ UNCHANGED idleInFlow

\* the listener thread handles one request
HandleRequest ==
    /\ server = "serving"
    /\ \E request \in Requests :
        /\ auth_code' = do_GET(auth_code, auth_error, request)[1]
        /\ auth_error' = do_GET(auth_code, auth_error, request)[2]
    /\ UNCHANGED <<flow_pc, server, browser, elapsed, flow_result, exchanged>>
    /\ FlowIdleOAuth
    /\ UNCHANGED idleInFlow

\* the steps of the thread that runs _perform_oauth_flow
FlowStep ==
    \/ FlowConfig
    \/ StartServer
    \/ AuthorizationUrl
    \/ OpenBrowser
    \/ PollCallback
    \/ CheckCallback
    \/ ExchangeCode
    \/ SaveToken
    \/ FlowFinally

NextFlow == FlowStep \/ HandleRequest

SpecFlow == InitFlow /\ [][NextFlow]_vars

\* the thread that runs the flow keeps running, and the calls it makes return
SpecFlowFair == SpecFlow /\ WF_vars(FlowStep)

\* ------------------------------------------------------------------
\* claims, SpecFlow and SpecFlowFair

\* C17: when _perform_oauth_flow has returned or raised and it had started
\* the callback listener, the listener has been shut down.
C17_ListenerShutDownOnEveryPath ==
    flow_pc = "done" => server # "serving"

C17_Witness ==
    /\ flow_pc = "done"
    /\ server = "shutdown"
    /\ flow_result = FlowRaised("exchange")

\* nothing has arrived at the callback endpoint
NothingReceived == auth_code = "None" /\ auth_error = "None"

\* a step raises the timeout error when, and only when, the loop finds the
\* ceiling passed with nothing received
TimeoutStep ==
    /\ (flow_result' = FlowRaised("timeout") /\ flow_result = FlowRunning) =>
            (timed_out(elapsed) /\ NothingReceived)
    /\ (/\ flow_pc = "poll" /\ flow_pc' # "poll"
        /\ timed_out(elapsed) /\ NothingReceived) =>
            (flow_result' = FlowRaised("timeout"))

\* C18: the flow always ends; it returns only after a code arrived and was
\* exchanged for tokens and raises in every other case; the timeout error is
\* raised when, and only when, the loop finds the 300 seconds passed with
\* nothing received; the authorization error only when the callback carried
\* an error, the exchange error only when a code had arrived.
C18_FlowTerminates ==
    /\ <>(flow_pc = "done")
    /\ [](flow_pc = "done" =>
            /\ flow_result.kind \in {"return", "raise"}
            /\ (flow_result.kind = "return") =>
                    (exchanged /\ auth_code = "code")
            /\ (flow_result = FlowRaised("authorization")) =>
                    (auth_error = "error")
            /\ (flow_result = FlowRaised("exchange")) =>
                    (auth_code = "code"))
    /\ [][TimeoutStep]_vars

C18_Witness ==
    /\ flow_pc = "done"
    /\ flow_result = FlowRaised("timeout")
    /\ NothingReceived
    /\ elapsed > 2 * timeout

\* ------------------------------------------------------------------
\* create_imap_connection (proxy_imap.py), one call
\*
\* An attempt is one turn of the loop: the session is created and conn.noop()
\* is called on it.  An error is known by what its message holds: "eof",
\* "ssl_eof" (both "ssl" and "eof"), "ssl" or "other".  An attempt fails at
\* the stage "connect" or at the stage "noop" (conn.logout() is then called);
\* the stage of a successful attempt is "ok".

ErrorKinds == {"eof", "ssl_eof", "ssl", "other"}

AttemptOutcomes ==
    {[stage |-> "ok", error |-> "None"]}
    \cup [stage : {"connect", "noop"}, error : ErrorKinds]

\* 'eof' in error_msg or 'unexpected_eof' in error_msg
has_eof(error) == error \in {"eof", "ssl_eof"}

\* 'ssl' in error_msg
has_ssl(error) == error \in {"ssl", "ssl_eof"}

ConnReturned(n) == [kind |-> "return", error |-> "None", attempt |-> n]

\* the error raised: "summary" (line 259), "ssl_hint" (line 254) or
\* "original" (line 256: raise e), with the attempt that raised it
ConnRaised(error, n) == [kind |-> "raise", error |-> error, attempt |-> n]

\* faulty variant: the loop makes one turn more
more_attempts_inclusive(n, retries) == n <= retries

\* line 203: for attempt in range(max_retries)
more_attempts(n, retries) == n < retries

\* line 252: if attempt == max_retries - 1
raises_in_loop(n, retries) == n = retries - 1

\* lines 245-249: the sleep before the next attempt, in half seconds
\* (1 + attempt * 0.5 seconds), made after an EOF error only
backoff(n, retries, error) ==
    IF has_eof(error) /\ n < retries - 1 THEN <<2 + n>> ELSE <<>>

\* the proxy_config argument: None, or a dict with its 'enabled' flag, its
\* 'type' and whether its 'host' and 'port' are both set
ProxyTypes == {"http", "SOCKS5", "ftp"}

ProxyConfigs ==
    {NoProxy, [NoProxy EXCEPT !.given = TRUE]}
    \cup [given : {TRUE}, enabled : {TRUE}, type : ProxyTypes, host : BOOLEAN]

\* lines 191-199, 206 and 219: the session class is a proxy class
uses_proxy_class(cfg) == cfg.given /\ cfg.enabled

\* ProxyIMAP4.__init__, line 26: proxy_type.lower()
lower_type(t) == IF t = "SOCKS5" THEN "socks5" ELSE t

\* ProxyIMAP4._create_proxy_socket: the connector chosen, "unsupported" when
\* the method raises at line 50
_create_proxy_socket(type, socks) ==
    IF type \in {"socks5", "socks4"} /\ socks THEN "socks"
    ELSE IF type = "http" THEN "http"
    ELSE "unsupported"

\* what the proxy answers to the connector: "tunnel", or "refused" (a non-200
\* reply to CONNECT, a SOCKS failure, the proxy cannot be reached)
Negotiations == {"tunnel", "refused"}

\* ProxyIMAP4._create_socket: how the socket is made, "proxy" (tunneled),
\* "fallback" (the proxy path raised; direct connection instead) or "direct"
_create_socket(cfg, socks, negotiation) ==
    IF cfg.host
    THEN IF _create_proxy_socket(lower_type(cfg.type), socks) # "unsupported"
            /\ negotiation = "tunnel"
         THEN "proxy"
         ELSE "fallback"
    ELSE "direct"

\* lines 205-230: the session class chosen and the socket it makes
route(cfg, socks, negotiation) ==
    IF uses_proxy_class(cfg) THEN _create_socket(cfg, socks, negotiation)
    ELSE "direct"

InitConn ==
    /\ ExInit /\ RunIdle /\ ConcIdle /\ OAuthIdle /\ FlowIdle /\ LaterIdle
    /\ proxy_config \in ProxyConfigs
    /\ socks_available \in BOOLEAN
    /\ routes = <<>>
    /\ conn_pc = "loop"
    /\ max_retries \in 0..MaxRetries
    /\ attempt = 0
    /\ last_error = "None"
    /\ outcomes = <<>>
    /\ slept = <<>>
    /\ conn_result = ConnRunning

\* lines 203-256: one turn of the loop
ConnAttempt ==
    /\ conn_pc = "loop"
    /\ more_attempts(attempt, max_retries)
    /\ \E negotiation \in Negotiations :
        routes' = Append(routes, route(proxy_config, socks_available,
                                       negotiation))
    /\ \E o \in AttemptOutcomes :
        /\ outcomes' = Append(outcomes, o)
        /\ IF o.stage = "ok"
           THEN /\ conn_result' = ConnReturned(attempt + 1)
                /\ conn_pc' = "done"
                /\ UNCHANGED <<attempt, last_error, slept>>
           ELSE /\ last_error' = o.error
                /\ slept' = slept \o backoff(attempt, max_retries, o.error)
                /\ IF backoff(attempt, max_retries, o.error) = <<>>
                      /\ raises_in_loop(attempt, max_retries)
                   THEN /\ conn_result' =
                               ConnRaised(IF has_ssl(o.error) THEN "ssl_hint"
                                          ELSE "original", attempt + 1)
                        /\ conn_pc' = "done"
                        /\ UNCHANGED attempt
                   ELSE /\ attempt' = attempt + 1
                        /\ UNCHANGED <<conn_result, conn_pc>>
    /\ UNCHANGED <<max_retries, proxy_config, socks_available>>
    /\ UNCHANGED idleInConn

\* lines 258-259: the loop ended without a return or a raise
ConnExhausted ==
    /\ conn_pc = "loop"
    /\ ~more_attempts(attempt, max_retries)
    /\ conn_result' = ConnRaised("summary", attempt)
    /\ conn_pc' = "done"
    /\ UNCHANGED <<max_retries, attempt, last_error, outcomes, slept,
                   proxy_config, socks_available, routes>>
    /\ UNCHANGED idleInConn

NextConn == ConnAttempt \/ ConnExhausted

SpecConn == InitConn /\ [][NextConn]_vars

\* ------------------------------------------------------------------
\* claims, SpecConn

\* C19: at most max_retries attempts are made, every attempt but the last
\* one made has failed, and the call returns exactly when the last attempt
\* made succeeded, with the session of that attempt.
C19_AtMostMaxRetriesAttempts ==
    /\ Len(outcomes) <= max_retries
    /\ \A i \in 1..(Len(outcomes) - 1) : outcomes[i].stage # "ok"
    /\ (outcomes # <<>> /\ Last(outcomes).stage = "ok") =>
            (conn_pc = "done" /\ conn_result = ConnReturned(Len(outcomes)))
    /\ (conn_result.kind = "return") =>
            (outcomes # <<>> /\ Last(outcomes).stage = "ok")

C19_Witness ==
    /\ conn_pc = "done"
    /\ max_retries = 3
    /\ Len(outcomes) = 2
    /\ outcomes[1].stage = "noop"
    /\ conn_result = ConnReturned(2)

\* C20: when max_retries attempts were made and all of them failed, the call
\* raises the summary error (which names max_retries and the last error).
C20_AllFailedRaisesSummary ==
    (/\ conn_pc = "done"
     /\ Len(outcomes) = max_retries
     /\ \A i \in 1..Len(outcomes) : outcomes[i].stage # "ok") =>
        conn_result = ConnRaised("summary", max_retries)

\* ------------------------------------------------------------ bulk export
\* EmailExporter (email_exporter.py) writes a whole list of records in one
\* call; MailClient.fetch_emails_batch (mail_client.py) collects the records of
\* a search and hands them to it.  A record is its identity and whether
\* building its row succeeds; a row is Row(sequence number, identity).

\* the records handed over: n records, those at the positions in bad fail
Emails(n, bad) == [i \in 1..n |-> [id |-> 100 + i, ok |-> i \notin bad]]

\* faulty variant: enumerate(emails) counts from 0
numbered_from_zero(emails) ==
    [i \in 1..Len(emails) |-> [seq |-> i - 1, rec |-> emails[i]]]

\* enumerate(emails, 1)
numbered(emails) ==
    [i \in 1..Len(emails) |-> [seq |-> i, rec |-> emails[i]]]

\* the loop over the records: a record whose row cannot be built is reported
\* and skipped, the others are written with '序号' = i
written(emails) ==
    LET kept == SelectSeq(numbered(emails), LAMBDA r : r.rec.ok)
    IN  [k \in 1..Len(kept) |-> Row(kept[k].seq, kept[k].rec.id)]

\* what can go wrong with the file itself
FileFaults == {"none", "makedirs", "open", "write"}

\* the outcome of a call: the file, the directory, the value returned
Out(file, dir, ret) == [file |-> file, dir |-> dir, ret |-> ret]

TornOut == [kind |-> "torn", rows |-> <<>>, total |-> 0]

\* os.makedirs when the directory is missing, then open(..., 'w'), then the
\* content; any exception outside the loop makes the call return False
write_file(file, dir, content, fault) ==
    IF fault = "makedirs" /\ ~dir THEN Out(file, dir, "False")
    ELSE IF fault = "open" THEN Out(file, TRUE, "False")
    ELSE IF fault = "write" THEN Out(TornOut, TRUE, "False")
    ELSE Out(content, TRUE, "True")

export_to_csv(file, dir, emails, fault) ==
    write_file(file, dir,
               [kind |-> "csv", rows |-> <<HeaderRow>> \o written(emails),
                total |-> 0],
               fault)

export_to_json(file, dir, emails, fault) ==
    write_file(file, dir,
               [kind |-> "json", rows |-> written(emails),
                total |-> Len(emails)],
               fault)

\* faulty variant: the list is not checked for being empty
export_emails_unchecked(file, dir, emails, format, fault) ==
    IF Lower(format) \notin supported_formats THEN Out(file, dir, "False")
    ELSE IF Lower(format) = "csv" THEN export_to_csv(file, dir, emails, fault)
    ELSE export_to_json(file, dir, emails, fault)

export_emails(file, dir, emails, format, fault) ==
    IF Len(emails) = 0 THEN Out(file, dir, "False")
    ELSE IF Lower(format) \notin supported_formats THEN Out(file, dir, "False")
    ELSE IF Lower(format) = "csv" THEN export_to_csv(file, dir, emails, fault)
    ELSE export_to_json(file, dir, emails, fault)

\* the records of the messages whose fetch and parse succeeded
emails_data(n, failing) ==
    LET got == SelectSeq([i \in 1..n |-> i], LAMBDA i : i \notin failing)
    IN  [k \in 1..Len(got) |-> [id |-> 100 + got[k], ok |-> TRUE]]

\* fetch_emails_batch: the result and the number returned
fetch_emails_batch(file, dir, n, failing, format, fault) ==
    IF fault = "search" THEN Out(file, dir, "raise")
    ELSE IF n = 0 THEN Out(file, dir, "int")
    ELSE LET success == export_emails(file, dir, emails_data(n, failing),
                                      format, fault)
         IN  IF success.ret = "True"
             THEN Out(success.file, success.dir, "int")
             ELSE Out(success.file, success.dir, "raise")

BulkCall(op, n, bad, format, fault, ret, count) ==
    [op |-> op, n |-> n, bad |-> bad, format |-> format, fault |-> fault,
     ret |-> ret, count |-> count]

InitBulk ==
    /\ ExInit /\ RunIdle /\ ConcIdle /\ OAuthIdle /\ FlowIdle /\ ConnIdle
    /\ ClientIdle /\ ResolveIdle /\ GuiIdle /\ LastIdle
    /\ out_file = AbsentOut
    /\ out_dir \in BOOLEAN
    /\ bulk_last = NoCall

Done(op, n, bad, format, fault, out, count) ==
    /\ out_file' = out.file
    /\ out_dir' = out.dir
    /\ bulk_last' = BulkCall(op, n, bad, format, fault, out.ret, count)
    /\ UNCHANGED idleInBulk

ExportToCsv ==
    \E n \in 0..MaxRecords, fault \in FileFaults :
        \E bad \in SUBSET (1..n) :
            Done("export_to_csv", n, bad, "csv", fault,
                 export_to_csv(out_file, out_dir, Emails(n, bad), fault), 0)

ExportToJson ==
    \E n \in 0..MaxRecords, fault \in FileFaults :
        \E bad \in SUBSET (1..n) :
            Done("export_to_json", n, bad, "json", fault,
                 export_to_json(out_file, out_dir, Emails(n, bad), fault), 0)

ExportEmails ==
    \E n \in 0..MaxRecords, fault \in FileFaults, format \in Formats :
        \E bad \in SUBSET (1..n) :
            Done("export_emails", n, bad, format, fault,
                 export_emails(out_file, out_dir, Emails(n, bad), format,
                               fault), 0)

FetchEmailsBatch ==
    \E n \in 0..MaxRecords, fault \in FileFaults \cup {"search"},
       format \in Formats :
        \E failing \in SUBSET (1..n) :
            LET out == fetch_emails_batch(out_file, out_dir, n, failing,
                                          format, fault)
            IN  Done("fetch_emails_batch", n, failing, format, fault, out,
                     IF out.ret = "int" THEN n - Cardinality(failing) ELSE 0)

NextBulk == ExportToCsv \/ ExportToJson \/ ExportEmails \/ FetchEmailsBatch

SpecBulk == InitBulk /\ [][NextBulk]_vars

\* ------------------------------------------------------------ claims (SpecBulk)
\* the last call was a bulk export of the exporter
Exported == bulk_last.op \in {"export_to_csv", "export_to_json", "export_emails"}

\* the data rows of the output file
DataRows == IF out_file.kind = "csv" THEN Tail(out_file.rows) ELSE out_file.rows

\* C22: a bulk export of N records of which none fails, and that reports
\* success, leaves a CSV file with the header row and N data rows, or a JSON
\* envelope with total_emails = N and N entries; the k-th row carries sequence
\* number k and is the k-th record of the input.
C22_BulkExportNumbersRecords ==
    (Exported /\ bulk_last.bad = {} /\ bulk_last.ret = "True") =>
        LET N == bulk_last.n
            emails == Emails(N, {})
        IN  /\ out_file.kind = Lower(bulk_last.format)
            /\ (out_file.kind = "csv") =>
                   (Len(out_file.rows) = N + 1 /\ out_file.rows[1] = HeaderRow)
            /\ (out_file.kind = "json") => (out_file.total = N)
            /\ Len(DataRows) = N
            /\ \A k \in 1..N : DataRows[k] = Row(k, emails[k].id)

C22_Witness ==
    /\ Exported /\ bulk_last.bad = {} /\ bulk_last.ret = "True"
    /\ bulk_last.n >= 2
    /\ out_file.kind = "json"

\* C23: when a bulk export skips failing records, the records written carry
\* the sequence numbers 1..k, k being the number of records written.
C23_WrittenRecordsGapless ==
    (Exported /\ bulk_last.ret = "True") =>
        \A k \in 1..Len(DataRows) : DataRows[k][1] = k

\* C24: export_emails with an empty list, or with a format that is neither
\* csv nor json in any letter case, returns False and leaves the output file
\* and its parent directory exactly as they were.
C24_RejectedExportTouchesNothing ==
    [][(/\ bulk_last'.op = "export_emails"
        /\ \/ bulk_last'.n = 0
           \/ Lower(bulk_last'.format) \notin supported_formats)
       => (/\ bulk_last'.ret = "False"
           /\ out_file' = out_file
           /\ out_dir' = out_dir)]_vars

C24_Witness ==
    /\ bulk_last.op = "export_emails"
    /\ bulk_last.n = 0
    /\ bulk_last.format = "JSON"
    /\ bulk_last.fault = "none"
    /\ bulk_last.ret = "False"
    /\ out_file.kind = "csv"

\* C25: fetch_emails_batch over a non-empty search result, whatever subset of
\* the messages fails to be fetched or parsed, returns the number of records
\* exported and leaves them in the output file.
C25_BatchReturnsExportedCount ==
    (/\ bulk_last.op = "fetch_emails_batch"
     /\ bulk_last.n > 0
     /\ bulk_last.fault = "none"
     /\ Lower(bulk_last.format) \in supported_formats)
    => (/\ bulk_last.ret = "int"
        /\ bulk_last.count = bulk_last.n - Cardinality(bulk_last.bad)
        /\ Len(DataRows) = bulk_last.count)

\* ------------------------------------------------------------ the session
\* MailClient.connect, disconnect, get_folders, search_emails and fetch_email
\* (mail_client.py).  self.mail is "None" or the session opened last; the
\* session's state is imaplib's (NONAUTH, AUTH, SELECTED, LOGOUT), and a
\* command outside its legal states raises before anything is sent.

ClientConfigs == [oauth : BOOLEAN, port993 : BOOLEAN, use_ssl : BOOLEAN]

\* imaplib.Commands: the states in which a command is legal
legal(command, state) ==
    CASE command = "CLOSE" -> state = "SELECTED"
      [] command = "LIST" -> state \in {"AUTH", "SELECTED"}
      [] command = "SELECT" -> state \in {"AUTH", "SELECTED"}
      [] command = "SEARCH" -> state = "SELECTED"
      [] command = "FETCH" -> state = "SELECTED"
      [] OTHER -> TRUE

\* where connect can fail: the OAuth authentication made to learn the user
\* name, the address format, create_imap_connection, starttls, the empty
\* password, login, _oauth_login
ConnectFaults == {"none", "oauth_pre", "format", "transport", "starttls",
                  "empty_password", "login", "oauth_login"}

\* the faults that the configuration lets happen
Applicable(cfg, fail) ==
    CASE fail = "oauth_pre" -> cfg.oauth
      [] fail = "starttls" -> ~cfg.port993 /\ cfg.use_ssl
      [] fail \in {"empty_password", "login"} -> ~cfg.oauth
      [] fail = "oauth_login" -> cfg.oauth
      [] OTHER -> TRUE

\* the client: the handle, the state of the session opened last, the count
Client(m, st, n) == [mail |-> m, imap_state |-> st, opened |-> n]

\* the outcome of a call: the client, what the call did and how it ended
Ended(c, ret, error, made) ==
    [c |-> c, ret |-> ret, error |-> error, made |-> made]

\* connect: the session is assigned to self.mail as soon as
\* create_imap_connection returns; every later failure is re-raised by the
\* handler of line 152, which leaves self.mail as it is
connect(cfg, c, fail) ==
    IF fail \in {"oauth_pre", "format", "transport"}
    THEN Ended(c, "raise", "other", <<>>)
    ELSE LET session == Client("session", "NONAUTH", c.opened + 1)
         IN  IF fail = "starttls"
             THEN Ended(session, "raise", "other", <<"starttls">>)
             ELSE IF fail = "empty_password"
             THEN Ended(session, "raise", "other", <<>>)
             ELSE IF fail = "login"
             THEN Ended(session, "raise", "other", <<"login">>)
             ELSE IF fail = "oauth_login"
             THEN Ended(session, "raise", "other", <<"authenticate">>)
             ELSE Ended([session EXCEPT !.imap_state = "AUTH"], "return",
                        "None", <<"login">>)

CommandOutcomes == {"ok", "error"}

\* faulty variant: the handle is cleared only after close and logout succeeded
disconnect_without_finally(c, close_out, logout_out) ==
    IF c.mail = "None" THEN Ended(c, "return", "None", <<>>)
    ELSE IF legal("CLOSE", c.imap_state) /\ close_out = "ok"
    THEN IF logout_out = "ok"
         THEN Ended(Client("None", "LOGOUT", c.opened), "return", "None",
                    <<"close", "logout">>)
         ELSE Ended(Client(c.mail, "LOGOUT", c.opened), "return", "None",
                    <<"close", "logout">>)
    ELSE Ended(Client(c.mail, "AUTH", c.opened), "return", "None", <<"close">>)

\* disconnect: close, then logout unless close raised; whatever they do is
\* swallowed and the handle cleared.  imaplib's close leaves the state AUTH,
\* its logout sets LOGOUT before it sends the command.
disconnect(c, close_out, logout_out) ==
    IF c.mail = "None" THEN Ended(c, "return", "None", <<>>)
    ELSE IF legal("CLOSE", c.imap_state) /\ close_out = "ok"
    THEN Ended(Client("None", "LOGOUT", c.opened), "return", "None",
               <<"close", "logout">>)
    ELSE Ended(Client("None", "AUTH", c.opened), "return", "None", <<"close">>)

get_folders(c, out) ==
    IF c.mail = "None" THEN Ended(c, "raise", "not_connected", <<>>)
    ELSE IF legal("LIST", c.imap_state) /\ out = "ok"
    THEN Ended(c, "return", "None", <<"list">>)
    ELSE Ended(c, "raise", "other", <<"list">>)

\* select's result is not looked at; a refused select leaves the state AUTH
\* and the search that follows is then illegal
search_emails(c, select_out, out) ==
    IF c.mail = "None" THEN Ended(c, "raise", "not_connected", <<>>)
    ELSE IF ~legal("SELECT", c.imap_state)
    THEN Ended(c, "raise", "other", <<"select">>)
    ELSE IF select_out # "ok"
    THEN Ended([c EXCEPT !.imap_state = "AUTH"], "raise", "other",
               <<"select", "search">>)
    ELSE IF out = "ok"
    THEN Ended([c EXCEPT !.imap_state = "SELECTED"], "return", "None",
               <<"select", "search">>)
    ELSE Ended([c EXCEPT !.imap_state = "SELECTED"], "raise", "other",
               <<"select", "search">>)

fetch_email(c, out) ==
    IF c.mail = "None" THEN Ended(c, "raise", "not_connected", <<>>)
    ELSE IF legal("FETCH", c.imap_state) /\ out = "ok"
    THEN Ended(c, "return", "None", <<"fetch">>)
    ELSE Ended(c, "raise", "other", <<"fetch">>)

InitClient ==
    /\ ExInit /\ RunIdle /\ ConcIdle /\ OAuthIdle /\ FlowIdle /\ ConnIdle
    /\ BulkIdle /\ ResolveIdle /\ GuiIdle /\ LastIdle
    /\ client_config \in ClientConfigs
    /\ mail = "None"
    /\ imap_state = "none"
    /\ sessions = 0
    /\ client_last = NoClientCall

TheClient == Client(mail, imap_state, sessions)

ClientDone(op, fail, e) ==
    /\ mail' = e.c.mail
    /\ imap_state' = e.c.imap_state
    /\ sessions' = e.c.opened
    /\ client_last' = [op |-> op, fail |-> fail, ret |-> e.ret,
                       error |-> e.error, made |-> e.made]
    /\ UNCHANGED client_config
    /\ UNCHANGED idleInClient

Connect ==
    /\ sessions < MaxSessions
    /\ \E fail \in ConnectFaults :
        /\ Applicable(client_config, fail)
        /\ ClientDone("connect", fail, connect(client_config, TheClient, fail))

Disconnect ==
    \E close_out \in CommandOutcomes, logout_out \in CommandOutcomes :
        ClientDone("disconnect", "none",
                   disconnect(TheClient, close_out, logout_out))

GetFolders ==
    \E out \in CommandOutcomes :
        ClientDone("get_folders", "none", get_folders(TheClient, out))

SearchEmails ==
    \E select_out \in CommandOutcomes, out \in CommandOutcomes :
        ClientDone("search_emails", "none",
                   search_emails(TheClient, select_out, out))

FetchEmail ==
    \E out \in CommandOutcomes :
        ClientDone("fetch_email", "none", fetch_email(TheClient, out))

NextClient == Connect \/ Disconnect \/ GetFolders \/ SearchEmails \/ FetchEmail

SpecClient == InitClient /\ [][NextClient]_vars

\* ------------------------------------------------------------ claims (SpecClient)
\* C26: a connect that raises after the transport was opened (starttls, empty
\* password, login, OAuth login) has closed the session it opened and left
\* the session handle absent.
C26_FailedConnectClosesSession ==
    (/\ client_last.op = "connect"
     /\ client_last.ret = "raise"
     /\ client_last.fail \in {"starttls", "empty_password", "login",
                              "oauth_login"})
    => (mail = "None" /\ imap_state = "LOGOUT")

Queries == {"get_folders", "search_emails", "fetch_email"}

\* C27: disconnect returns normally and leaves the session handle absent
\* whatever close and logout do; while the handle is absent get_folders,
\* search_emails and fetch_email raise the not-connected error; a disconnect
\* that follows a disconnect sends nothing and changes nothing.
C27_DisconnectAlwaysClearsHandle ==
    [][/\ (client_last'.op = "disconnect") =>
              (client_last'.ret = "return" /\ mail' = "None")
       /\ (client_last'.op \in Queries /\ mail = "None") =>
              (/\ client_last'.ret = "raise"
               /\ client_last'.error = "not_connected"
               /\ client_last'.made = <<>>)
       /\ (client_last.op = "disconnect" /\ client_last'.op = "disconnect") =>
              (/\ client_last'.made = <<>>
               /\ mail' = mail
               /\ imap_state' = imap_state)]_vars

C27_Witness ==
    /\ client_last.op = "disconnect"
    /\ client_last.made = <<"close">>
    /\ client_last.ret = "return"
    /\ imap_state = "AUTH"
    /\ mail = "None"

\* ------------------------------------------------------------ providers
\* EmailProviders (email_providers.py) and the provider resolution of
\* MailClient.__init__ (mail_client.py:49-66).  An address is the sequence of
\* the pieces that '@' separates, as address.split('@') gives them; <<>> is
\* no address.  The table is DEFAULT_PROVIDERS, in its order.

Provider(name, custom_imap_server, patterns) ==
    [name |-> name, imap_server |-> custom_imap_server, domain_patterns |-> patterns]

PROVIDERS ==
    << Provider("163", "imap.163.com", <<"163.com", "126.com", "yeah.net">>),
       Provider("gmail", "imap.gmail.com", <<"gmail.com", "googlemail.com">>),
       Provider("qq", "imap.qq.com", <<"qq.com", "foxmail.com">>),
       Provider("outlook", "outlook.office365.com",
                <<"outlook.com", "hotmail.com", "live.com", "msn.com">>),
       Provider("yahoo", "imap.mail.yahoo.com",
                <<"yahoo.com", "yahoo.cn", "ymail.com">>),
       Provider("custom", "", <<>>) >>

\* str.lower() on the names and domains used here
lower(s) ==
    CASE s = "GMAIL.COM" -> "gmail.com"
      [] s = "Hotmail.com" -> "hotmail.com"
      [] s = "GMAIL" -> "gmail"
      [] s = "Custom" -> "custom"
      [] OTHER -> s

Addresses ==
    { <<>>, <<"user">>, <<"user", "">>,
      <<"user", "gmail.com">>, <<"user", "GMAIL.COM">>, <<"user", "126.com">>,
      <<"user", "Hotmail.com">>, <<"user", "unknown.tld">>,
      <<"user", "mail.gmail.com">>,
      <<"a", "b", "gmail.com">>, <<"a", "gmail.com", "evil.example">> }

\* domain in provider.domain_patterns
in_patterns(domain, provider) ==
    \E i \in 1..Len(provider.domain_patterns) :
        provider.domain_patterns[i] = domain

\* the first of the providers selected from the table, or None
first_provider(hits) == IF hits = <<>> THEN NoConfig ELSE Head(hits)

\* 'not email or "@" not in email', then email.split('@')[1].lower()
get_provider_by_email(email) ==
    IF Len(email) <= 1 THEN NoConfig
    ELSE first_provider(SelectSeq(PROVIDERS,
                                  LAMBDA p : in_patterns(lower(email[2]), p)))

\* PROVIDERS.get(name.lower())
get_provider_by_name(name) ==
    first_provider(SelectSeq(PROVIDERS, LAMBDA p : p.name = lower(name)))

\* validate_custom_config, then the record built from the arguments
create_custom_provider(custom_imap_server, custom_imap_port) ==
    IF custom_imap_server = "ok" /\ custom_imap_port = "ok"
    THEN [config |-> Provider("custom", "custom_imap_server", <<>>),
          error |-> "None"]
    ELSE [config |-> NoConfig, error |-> "invalid_custom"]

Resolution(config, custom, error) ==
    [config |-> config, is_custom_provider |-> custom, error |-> error]

\* 'if not self.config: raise ValueError'
or_unresolved(config) ==
    IF config = NoConfig THEN Resolution(NoConfig, FALSE, "unresolved")
    ELSE Resolution(config, FALSE, "None")

\* faulty variant: a name that is not in the table falls back on the address
MailClient__init__falling_back(provider_name, email, custom_imap_server, custom_imap_port) ==
    IF provider_name = "custom"
    THEN IF custom_imap_server = "missing" \/ custom_imap_port = "missing"
         THEN Resolution(NoConfig, FALSE, "invalid_custom")
         ELSE LET made == create_custom_provider(custom_imap_server, custom_imap_port)
              IN  Resolution(made.config, made.error = "None", made.error)
    ELSE IF provider_name # "None"
            /\ get_provider_by_name(provider_name) # NoConfig
    THEN or_unresolved(get_provider_by_name(provider_name))
    ELSE IF email # <<>>
    THEN or_unresolved(get_provider_by_email(email))
    ELSE or_unresolved(NoConfig)

\* lines 49-66: the branch is chosen by the arguments that are given
MailClient__init__(provider_name, email, custom_imap_server, custom_imap_port) ==
    IF provider_name = "custom"
    THEN IF custom_imap_server = "missing" \/ custom_imap_port = "missing"
         THEN Resolution(NoConfig, FALSE, "invalid_custom")
         ELSE LET made == create_custom_provider(custom_imap_server, custom_imap_port)
              IN  Resolution(made.config, made.error = "None", made.error)
    ELSE IF provider_name # "None"
    THEN or_unresolved(get_provider_by_name(provider_name))
    ELSE IF email # <<>>
    THEN or_unresolved(get_provider_by_email(email))
    ELSE or_unresolved(NoConfig)

ProviderNames == {"None", "custom", "Custom", "gmail", "GMAIL", "163", "nosuch"}
CustomServers == {"missing", "ok", "malformed"}
CustomPorts == {"missing", "ok", "out_of_range"}

InitResolve ==
    /\ ExInit /\ RunIdle /\ ConcIdle /\ OAuthIdle /\ FlowIdle /\ ConnIdle
    /\ BulkIdle /\ ClientIdle /\ GuiIdle /\ LastIdle
    /\ resolved = NoLookup

GetProviderByEmail ==
    /\ \E email \in Addresses :
        resolved' = [NoLookup EXCEPT !.op = "get_provider_by_email",
                                     !.email = email,
                                     !.config = get_provider_by_email(email)]
    /\ UNCHANGED idleInResolve

GetProviderByName ==
    /\ \E name \in ProviderNames \ {"None"} :
        resolved' = [NoLookup EXCEPT !.op = "get_provider_by_name",
                                     !.provider_name = name,
                                     !.config = get_provider_by_name(name)]
    /\ UNCHANGED idleInResolve

NewMailClient ==
    /\ \E provider_name \in ProviderNames, email \in Addresses,
          custom_imap_server \in CustomServers, custom_imap_port \in CustomPorts :
        LET r == MailClient__init__(provider_name, email, custom_imap_server, custom_imap_port)
        IN  resolved' = [op |-> "MailClient", provider_name |-> provider_name,
                         email |-> email, custom_imap_server |-> custom_imap_server, custom_imap_port |-> custom_imap_port,
                         config |-> r.config,
                         is_custom_provider |-> r.is_custom_provider,
                         error |-> r.error]
    /\ UNCHANGED idleInResolve

NextResolve == GetProviderByEmail \/ GetProviderByName \/ NewMailClient

SpecResolve == InitResolve /\ [][NextResolve]_vars

\* ------------------------------------------------------------ claims (SpecResolve)
\* what each of the three sources of the constructor would yield
FromCustom ==
    resolved.provider_name = "custom"
    /\ resolved.custom_imap_server # "missing"
    /\ resolved.custom_imap_port # "missing"

FromName ==
    IF resolved.provider_name = "None" THEN NoConfig
    ELSE get_provider_by_name(resolved.provider_name)

FromEmail == get_provider_by_email(resolved.email)

\* C28 as stated: the constructor takes the first of the custom arguments,
\* the named provider and the provider detected from the address that yields
\* a configuration, and raises the unresolved-provider error exactly when none
\* of the three yields one.
C28_ResolvesFromFirstYielding ==
    (resolved.op = "MailClient") =>
        /\ (resolved.error = "unresolved") <=>
               (~FromCustom /\ FromName = NoConfig /\ FromEmail = NoConfig)
        /\ (resolved.error = "None") =>
               resolved.config.name =
                   (IF FromCustom THEN "custom"
                    ELSE IF FromName # NoConfig THEN FromName.name
                    ELSE FromEmail.name)

\* C28: the constructor chooses the source by the arguments given: the name
\* 'custom' takes the custom server and port (an error of its own when they
\* are missing or invalid), any other name is looked up in the table and
\* nothing else, and the address is used only when no name is given; the
\* unresolved-provider error is raised exactly when the chosen source yields
\* no configuration.
C28_ResolvesByArgumentsGiven ==
    (resolved.op = "MailClient") =>
        LET name == resolved.provider_name
            custom_ok == /\ resolved.custom_imap_server = "ok"
                         /\ resolved.custom_imap_port = "ok"
            chosen == IF name # "None" THEN FromName ELSE FromEmail
        IN  IF name = "custom"
            THEN IF custom_ok
                 THEN /\ resolved.error = "None"
                      /\ resolved.is_custom_provider
                      /\ resolved.config.name = "custom"
                      /\ resolved.config.imap_server = "custom_imap_server"
                 ELSE resolved.error = "invalid_custom"
            ELSE /\ ~resolved.is_custom_provider
                 /\ resolved.config = chosen
                 /\ (resolved.error = "unresolved") <=> (chosen = NoConfig)
                 /\ resolved.error \in {"unresolved", "None"}

C28_Witness ==
    /\ resolved.op = "MailClient"
    /\ resolved.provider_name = "nosuch"
    /\ resolved.email = <<"user", "gmail.com">>
    /\ resolved.error = "unresolved"

\* C29: get_provider_by_email returns the provider whose domain_patterns
\* holds the lower-cased text after the last '@' of the address, and None when
\* there is no such provider or no '@'.
C29_DetectsByTextAfterLastAt ==
    (resolved.op = "get_provider_by_email") =>
        resolved.config =
            (IF Len(resolved.email) <= 1 THEN NoConfig
             ELSE first_provider(SelectSeq(PROVIDERS,
                      LAMBDA p : in_patterns(lower(Last(resolved.email)), p))))

\* ------------------------------------------------------------ the GUI's export
\* start_export, cancel_export, export_worker and check_queue
\* (mail_exporter_gui.py).  The window's callbacks run on the UI thread, the
\* worker on a thread of its own; the two share the flags and the queue.  A
\* button calls its command only while it is enabled.

\* how the export call of the worker ends
WorkerOutcomes == {"returned", "raised"}

\* faulty variant: the handler of the exception also sends "finished"
report_with_finished(outcome, exporting, stopping) ==
    IF ~exporting THEN <<>>
    ELSE IF outcome = "returned"
    THEN IF stopping THEN <<"success", "status">>
         ELSE <<"success", "progress:100", "status">>
    ELSE <<"error", "status", "finished">>

\* lines 1124-1140: what the worker reports when the call has ended
report(outcome, exporting, stopping) ==
    IF ~exporting THEN <<>>
    ELSE IF outcome = "returned"
    THEN IF stopping THEN <<"success", "status">>
         ELSE <<"success", "progress:100", "status">>
    ELSE <<"error", "status">>

\* faulty variant: "finished" is sent at the end of the try block only
sends_finished_on_return(outcome, exporting) ==
    exporting /\ outcome = "returned"

\* lines 1141-1143: the finally clause
sends_finished(outcome, exporting) == exporting

\* what progress_callback and the worker's log lines put on the queue
ProgressKinds == {"log", "status", "progress:0", "progress:50", "progress:100"}

\* faulty variant: an error message leaves the progress bar as it is
progress_kept_on_error(kind, p) ==
    CASE kind = "progress:0" -> 0
      [] kind = "progress:50" -> 50
      [] kind = "progress:100" -> 100
      [] kind = "success" -> 100
      [] kind = "finished" -> IF p > 0 THEN 100 ELSE p
      [] OTHER -> p

\* check_queue: the progress bar after a message of this kind, p before it
progress_after(kind, p) ==
    CASE kind = "progress:0" -> 0
      [] kind = "progress:50" -> 50
      [] kind = "progress:100" -> 100
      [] kind = "success" -> 100
      [] kind = "error" -> 0
      [] kind = "finished" -> IF p > 0 THEN 100 ELSE p
      [] OTHER -> p

\* a thread touching a widget or a variable bound to one
Access(thread, how) == <<thread, how>>

InitGui ==
    /\ ExInit /\ RunIdle /\ ConcIdle /\ OAuthIdle /\ FlowIdle /\ ConnIdle
    /\ BulkIdle /\ ClientIdle /\ ResolveIdle /\ LastIdle
    /\ GuiIdle

\* start_export, called by the Start button
StartExport ==
    /\ start_btn = "normal"
    /\ runs < MaxRuns
    /\ \E validate_inputs \in BOOLEAN :
        IF validate_inputs
        THEN /\ start_btn' = "disabled"
             /\ cancel_btn' = "normal"
             /\ is_exporting' = TRUE
             /\ gui_stop_requested' = FALSE
             /\ progress_var' = 0
             /\ worker_pc' = "started"
             /\ workers' = workers + 1
             /\ runs' = runs + 1
             /\ finished_put' = 0
             /\ widget_access' = widget_access \cup
                    {Access("ui", "read"), Access("ui", "write")}
             /\ UNCHANGED <<message_queue, ended_as>>
        ELSE /\ widget_access' = widget_access \cup {Access("ui", "read")}
             /\ UNCHANGED <<start_btn, cancel_btn, is_exporting,
                            gui_stop_requested, message_queue, worker_pc,
                            runs, finished_put, progress_var, workers,
                            ended_as>>
    /\ UNCHANGED idleInGui

\* cancel_export, called by the Stop button
CancelExport ==
    /\ cancel_btn = "normal"
    /\ gui_stop_requested' = TRUE
    /\ widget_access' = widget_access \cup {Access("ui", "write")}
    /\ UNCHANGED <<start_btn, cancel_btn, is_exporting, message_queue,
                   worker_pc, runs, finished_put, progress_var, workers,
                   ended_as>>
    /\ UNCHANGED idleInGui

\* lines 1014-1113: the worker takes its parameters from the entry fields'
\* variables and the date pickers, with get() and get_date()
WorkerReadInputs ==
    /\ worker_pc = "started"
    /\ worker_pc' = "running"
    /\ widget_access' = widget_access \cup {Access("worker", "read")}
    /\ UNCHANGED <<start_btn, cancel_btn, is_exporting, gui_stop_requested,
                   message_queue, runs, finished_put, progress_var, workers,
                   ended_as>>
    /\ UNCHANGED idleInGui

\* the worker's log lines and progress_callback
WorkerProgress ==
    /\ worker_pc = "running"
    /\ Len(message_queue) < MaxQueue
    /\ is_exporting
    /\ \E kind \in ProgressKinds :
        message_queue' = Append(message_queue, kind)
    /\ UNCHANGED <<start_btn, cancel_btn, is_exporting, gui_stop_requested,
                   worker_pc, runs, finished_put, progress_var, workers,
                   ended_as, widget_access>>
    /\ UNCHANGED idleInGui

\* the export call ends and the worker reports, then runs its finally clause
WorkerEnd ==
    /\ worker_pc = "running"
    /\ \E outcome \in WorkerOutcomes :
        /\ message_queue' =
               message_queue \o report(outcome, is_exporting,
                                       gui_stop_requested)
        /\ worker_pc' = outcome
        /\ ended_as' = IF outcome = "raised" THEN "error"
                       ELSE IF gui_stop_requested THEN "stopped"
                       ELSE "completed"
    /\ UNCHANGED <<start_btn, cancel_btn, is_exporting, gui_stop_requested,
                   runs, finished_put, progress_var, workers, widget_access>>
    /\ UNCHANGED idleInGui

\* the finally clause; the thread ends with it
WorkerFinally ==
    /\ worker_pc \in WorkerOutcomes
    /\ IF sends_finished(worker_pc, is_exporting)
       THEN /\ message_queue' = Append(message_queue, "finished")
            /\ finished_put' = finished_put + 1
       ELSE UNCHANGED <<message_queue, finished_put>>
    /\ worker_pc' = "ended"
    /\ workers' = workers - 1
    /\ UNCHANGED <<start_btn, cancel_btn, is_exporting, gui_stop_requested,
                   runs, progress_var, ended_as, widget_access>>
    /\ UNCHANGED idleInGui

\* check_queue: one message taken from the queue and handled
CheckQueue ==
    /\ message_queue # <<>>
    /\ message_queue' = Tail(message_queue)
    /\ progress_var' = progress_after(Head(message_queue), progress_var)
    /\ widget_access' = widget_access \cup {Access("ui", "write")}
    /\ IF Head(message_queue) = "finished"
       THEN /\ start_btn' = "normal"
            /\ cancel_btn' = "disabled"
            /\ is_exporting' = FALSE
            /\ gui_stop_requested' = FALSE
       ELSE UNCHANGED <<start_btn, cancel_btn, is_exporting,
                        gui_stop_requested>>
    /\ UNCHANGED <<worker_pc, runs, finished_put, workers, ended_as>>
    /\ UNCHANGED idleInGui

WorkerStep == WorkerReadInputs \/ WorkerEnd \/ WorkerFinally

NextGui ==
    \/ StartExport
    \/ CancelExport
    \/ WorkerReadInputs
    \/ WorkerProgress
    \/ WorkerEnd
    \/ WorkerFinally
    \/ CheckQueue

SpecGui == InitGui /\ [][NextGui]_vars

\* the export call of the worker ends, the worker thread keeps running, and
\* the UI thread runs check_queue every 100 ms
SpecGuiFair == SpecGui /\ WF_vars(WorkerStep) /\ WF_vars(CheckQueue)

\* ------------------------------------------------------------ claims (SpecGuiFair)
Exporting == worker_pc \in {"started", "running", "returned", "raised"}

Reset ==
    /\ start_btn = "normal"
    /\ cancel_btn = "disabled"
    /\ ~is_exporting
    /\ ~gui_stop_requested

\* at most one "finished" per run, and nothing behind it in the queue
OneFinishedLast ==
    /\ finished_put <= 1
    /\ \A i \in 1..Len(message_queue) :
           (message_queue[i] = "finished") => (i = Len(message_queue))
    /\ Exporting => (finished_put = 0)

\* the step that handles "finished" leaves the window reset
FinishedResets ==
    (message_queue # <<>> /\ Head(message_queue) = "finished"
     /\ message_queue' = Tail(message_queue)) => Reset'

\* C30: every export started from the window enqueues, on each way out of the
\* worker, exactly one "finished" message and nothing after it; the step of
\* the UI thread that handles it enables Start, disables Stop and clears both
\* flags, and every export reaches that state.
C30_EveryExportFinishes ==
    /\ []OneFinishedLast
    /\ [][FinishedResets]_vars
    /\ Exporting ~> (worker_pc = "ended" /\ finished_put = 1)
    /\ Exporting ~> (worker_pc = "ended" /\ message_queue = <<>> /\ Reset)

C30_Witness ==
    /\ worker_pc = "ended"
    /\ runs = MaxRuns
    /\ finished_put = 1
    /\ message_queue = <<>>
    /\ Reset

\* C31: at most one export thread exists at a time: Start is enabled only
\* while no export is running, and a worker is created only when no worker is
\* left and the "finished" message of the run before has been handled.
NoWorkerWhileStartEnabled ==
    /\ workers <= 1
    /\ (start_btn = "normal") => (workers = 0 /\ ~is_exporting)

WorkerCreatedAfterFinished ==
    (runs' = runs + 1) =>
        /\ workers = 0
        /\ (runs > 0) =>
               /\ finished_put = 1
               /\ \A i \in 1..Len(message_queue) :
                      message_queue[i] # "finished"

C32_WorkerNeverTouchesWidgets ==
    \A a \in widget_access : a[1] # "worker"

\* every message of the last run has been handled
AllProcessed == worker_pc = "ended" /\ message_queue = <<>>

\* C33: once every message of a run has been handled, the progress bar shows
\* 0 when the run ended in an error and 100 when it completed.
C33_ProgressBarShowsOutcome ==
    AllProcessed =>
        /\ (ended_as = "error") => (progress_var = 0)
        /\ (ended_as = "completed") => (progress_var = 100)

C33_Witness ==
    /\ AllProcessed
    /\ ended_as = "error"
    /\ progress_var = 0
    /\ runs = 2

\* C35: a run of fetch_emails_incremental whose search fails has not
\* created the output file.
C35_FailedSearchLeavesNoFile ==
    (/\ pc = "finally"
     /\ result = Raised
     /\ calls = <<Call("initialize_export", "True")>>)
    => (disk = AbsentFile)

\* C36: a connect on the password path with no password raises before any
\* connection to the server or to a proxy is opened.
C36_EmptyPasswordOpensNothing ==
    [][(client_last'.op = "connect" /\ client_last'.fail = "empty_password")
       => (client_last'.ret = "raise" /\ sessions' = sessions)]_vars

\* C37: a disconnect made with a session open issues LOGOUT, whatever the
\* state of the session.
C37_DisconnectLogsOut ==
    (client_last.op = "disconnect" /\ client_last.made # <<>>) =>
        \E i \in 1..Len(client_last.made) : client_last.made[i] = "logout"

\* ============================================================ connect, step by step
\* MailClient.connect (mail_client.py) from the configuration of the client to
\* the credentials: which transport is opened, whether STARTTLS is made, and
\* which command carries the credentials.  Every command is recorded with
\* the protection of the socket at the time it is sent.

\* the entries of EmailProviders.DEFAULT_PROVIDERS read by connect
DEFAULT_PROVIDERS(name) ==
    CASE name = "163" ->
           [name |-> "163", imap_port |-> 993, use_ssl |-> TRUE,
            auth_type |-> "password"]
      [] name = "gmail" ->
           [name |-> "gmail", imap_port |-> 993, use_ssl |-> TRUE,
            auth_type |-> "oauth2"]
      [] name = "qq" ->
           [name |-> "qq", imap_port |-> 993, use_ssl |-> TRUE,
            auth_type |-> "app_password"]
      [] name = "outlook" ->
           [name |-> "outlook", imap_port |-> 993, use_ssl |-> TRUE,
            auth_type |-> "app_password"]
      [] name = "yahoo" ->
           [name |-> "yahoo", imap_port |-> 993, use_ssl |-> TRUE,
            auth_type |-> "app_password"]

TableNames == {"163", "gmail", "qq", "outlook", "yahoo"}

\* EmailProviders.create_custom_provider as MailClient.__init__ calls it
custom_config(custom_imap_port, custom_use_ssl) ==
    [name |-> "custom", imap_port |-> custom_imap_port,
     use_ssl |-> custom_use_ssl, auth_type |-> "password"]

\* MailClient.__init__: an OAuth configuration given for gmail sets oauth2
with_oauth_config(config, oauth_config) ==
    IF oauth_config /\ config.name = "gmail"
    THEN [config EXCEPT !.auth_type = "oauth2"]
    ELSE config

\* connect's choice between the OAuth2 login and the password login
uses_oauth(config) == config.auth_type = "oauth2" /\ config.name = "gmail"

\* connect's choice of transport: implicit TLS on port 993; any other port is
\* opened in plain text and upgraded with STARTTLS when use_ssl is set
transport_without_starttls(config) ==
    IF config.imap_port = 993 THEN "implicit_tls" ELSE "plain"

transport(config) ==
    IF config.imap_port = 993 THEN "implicit_tls"
    ELSE IF config.use_ssl THEN "starttls"
    ELSE "plain"

Sent(command) == [command |-> command, tls |-> tls]

Usernames == {"", "malformed", "user@gmail.com"}
Passwords == {"", "app-password"}
ImapPorts == {993, 143}

InitLogin ==
    /\ ExInit /\ RunIdle /\ ConcIdle /\ OAuthIdle /\ FlowIdle /\ ConnIdle
    /\ BulkIdle /\ ClientIdle /\ ResolveIdle /\ GuiIdle
    /\ LoginIdle /\ LocaleIdle /\ ParseIdle

\* MailClient(provider_name=..., oauth_config=...) or
\* MailClient(provider_name='custom', custom_imap_port=..., custom_use_ssl=...)
NewClient ==
    /\ login_pc \in {"none", "returned", "raised"}
    /\ \E oauth_config \in BOOLEAN :
         \/ \E name \in TableNames :
              login_config' = with_oauth_config(DEFAULT_PROVIDERS(name),
                                                oauth_config)
         \/ \E custom_imap_port \in ImapPorts, custom_use_ssl \in BOOLEAN :
              login_config' =
                  with_oauth_config(custom_config(custom_imap_port,
                                                  custom_use_ssl),
                                    oauth_config)
    /\ login_args' = NoArgs
    /\ login_pc' = "constructed"
    /\ tls' = FALSE
    /\ wire' = <<>>
    /\ login_error' = "none"
    /\ UNCHANGED idleInLogin

\* connect up to validate_email_format: with no username the OAuth2 path asks
\* GmailOAuth for the address of the account
ConnectValidate ==
    /\ login_pc = "constructed"
    /\ \E username \in Usernames, password \in Passwords,
          gmail_oauth \in {"address", "no_address", "failed"} :
         LET asks == uses_oauth(login_config) /\ username = ""
             name == IF asks /\ gmail_oauth = "address"
                     THEN "user@gmail.com" ELSE username
             error == IF asks /\ gmail_oauth # "address" THEN "oauth"
                      ELSE IF name # "user@gmail.com" THEN "format"
                      ELSE "none"
         IN /\ (~asks) => (gmail_oauth = "address")
            /\ login_args' = [username |-> name, password |-> password]
            /\ login_error' = error
            /\ login_pc' = IF error = "none" THEN "validated" ELSE "raised"
    /\ UNCHANGED <<login_config, tls, wire>>
    /\ UNCHANGED idleInLogin

\* create_imap_connection(use_ssl=(imap_port == 993)): a session that is
\* returned has answered NOOP
ConnectOpen ==
    /\ login_pc = "validated"
    /\ \E created \in BOOLEAN :
         IF created
         THEN /\ tls' = (transport(login_config) = "implicit_tls")
              /\ wire' = Append(wire, [command |-> "NOOP", tls |-> tls'])
              /\ login_pc' = IF transport(login_config) = "starttls"
                             THEN "opened" ELSE "secured"
              /\ UNCHANGED login_error
         ELSE /\ login_error' = "create"
              /\ login_pc' = "raised"
              /\ UNCHANGED <<tls, wire>>
    /\ UNCHANGED <<login_config, login_args>>
    /\ UNCHANGED idleInLogin

\* self.mail.starttls(): imaplib raises when the server does not offer
\* STARTTLS, answers NO or the handshake fails
ConnectStartTLS ==
    /\ login_pc = "opened"
    /\ \E upgraded \in BOOLEAN :
         /\ wire' = Append(wire, Sent("STARTTLS"))
         /\ IF upgraded
            THEN /\ tls' = TRUE
                 /\ login_pc' = "secured"
                 /\ UNCHANGED login_error
            ELSE /\ login_error' = "starttls"
                 /\ login_pc' = "raised"
                 /\ UNCHANGED tls
    /\ UNCHANGED <<login_config, login_args>>
    /\ UNCHANGED idleInLogin

\* the login of connect: _oauth_login sends AUTHENTICATE XOAUTH2 once
\* GmailOAuth has a token; the password path sends LOGIN when a password was
\* given; the ID command follows a login that succeeded
ConnectLogin ==
    /\ login_pc = "secured"
    /\ \E token \in BOOLEAN, accepted \in BOOLEAN :
         LET command == IF uses_oauth(login_config)
                        THEN IF token THEN "AUTHENTICATE" ELSE "none"
                        ELSE IF login_args.password = "" THEN "none"
                        ELSE "LOGIN"
             error == IF command = "none"
                      THEN IF uses_oauth(login_config) THEN "oauth_login"
                           ELSE "empty_password"
                      ELSE IF accepted THEN "none" ELSE "rejected"
         IN /\ (~uses_oauth(login_config)) => token
            /\ (command = "none") => accepted
            /\ wire' = IF command = "none" THEN wire
                       ELSE IF accepted
                       THEN wire \o <<Sent(command), Sent("ID")>>
                       ELSE Append(wire, Sent(command))
            /\ login_error' = error
            /\ login_pc' = IF error = "none" THEN "returned" ELSE "raised"
    /\ UNCHANGED <<login_config, login_args, tls>>
    /\ UNCHANGED idleInLogin

NextLogin ==
    \/ NewClient
    \/ ConnectValidate
    \/ ConnectOpen
    \/ ConnectStartTLS
    \/ ConnectLogin

SpecLogin == InitLogin /\ [][NextLogin]_vars

\* ------------------------------------------------------------ claims (SpecLogin)
Credentials == {"LOGIN", "AUTHENTICATE"}

CredentialsSent == \E i \in 1..Len(wire) : wire[i].command \in Credentials

\* C38: a client for gmail taken from the default table with no OAuth
\* configuration, connecting with a well-formed username and a password that
\* is not empty, sends LOGIN and never takes the OAuth2 login.
C38_GmailPasswordUsesLogin ==
    (/\ login_config.name = "gmail"
     /\ login_config = DEFAULT_PROVIDERS("gmail")
     /\ login_args.username = "user@gmail.com"
     /\ login_args.password # ""
     /\ login_pc \in {"returned", "raised"}
     /\ login_error \notin {"create", "starttls"})
    => /\ \E i \in 1..Len(wire) : wire[i].command = "LOGIN"
       /\ \A i \in 1..Len(wire) : wire[i].command # "AUTHENTICATE"
       /\ login_error # "oauth_login"

\* C39: with use_ssl set or port 993, LOGIN and AUTHENTICATE are sent only
\* over TLS (implicit on port 993, after a completed STARTTLS otherwise), and
\* a connect whose TLS could not be set up raises with no credentials sent.
C39_CredentialsOnlyOverTLS ==
    (login_config.use_ssl \/ login_config.imap_port = 993) =>
        /\ \A i \in 1..Len(wire) :
             (wire[i].command \in Credentials) => wire[i].tls
        /\ (login_error \in {"create", "starttls"}) =>
             (login_pc = "raised" /\ ~CredentialsSent)
        /\ (login_pc \in {"secured", "returned"}) => tls

C39_Witness ==
    /\ login_config.imap_port = 143
    /\ login_config.use_ssl
    /\ login_pc = "returned"
    /\ \E i \in 1..Len(wire) : wire[i] = [command |-> "STARTTLS", tls |-> FALSE]
    /\ \E i \in 1..Len(wire) : wire[i] = [command |-> "LOGIN", tls |-> TRUE]


\* ============================================================ the time locale
\* search_emails (mail_client.py, lines 322-337) formats its dates under the
\* "C" time locale and then puts a locale back.  LC_TIME is a setting of the
\* whole process; a Python process starts with "C" and the application or a
\* library may set another one.

Locales == {"C", "C.UTF-8", "de_DE.UTF-8", "zh_CN.UTF-8"}

\* old_locale[0] of locale.getlocale(LC_TIME): None under "C"
getlocale(setting) == IF setting = "C" THEN "None" ELSE setting

\* the finally block of the formatting: the setting read before is put back
\* when getlocale named one, the environment's locale is installed when it
\* named none, and a setlocale that raises is swallowed
restore_locale(old_locale, from_env, setlocale_ok) ==
    IF ~setlocale_ok THEN "C"
    ELSE IF getlocale(old_locale) # "None" THEN old_locale
    ELSE from_env

SearchOutcomes == {"not_connected", "select_raises", "search_raises",
                   "status_not_ok", "return"}

\* the LC_TIME setting search_emails leaves
search_emails_locale(setting, from_env, outcome, setlocale_ok) ==
    IF outcome \in {"not_connected", "select_raises"} THEN setting
    ELSE restore_locale(setting, from_env, setlocale_ok)

InitLocale ==
    /\ ExInit /\ RunIdle /\ ConcIdle /\ OAuthIdle /\ FlowIdle /\ ConnIdle
    /\ BulkIdle /\ ClientIdle /\ ResolveIdle /\ GuiIdle
    /\ LoginIdle /\ ParseIdle
    /\ lc_time = "C"
    /\ env_locale \in Locales
    /\ locale_last = NoSearch

\* locale.setlocale(LC_TIME, name) or setlocale(LC_TIME, '') by the
\* application
SetLocale ==
    /\ \E name \in Locales \cup {""} :
         lc_time' = IF name = "" THEN env_locale ELSE name
    /\ locale_last' = NoSearch
    /\ UNCHANGED env_locale
    /\ UNCHANGED idleInLocale

SearchEmailsLocale ==
    /\ \E outcome \in SearchOutcomes, setlocale_ok \in BOOLEAN :
         /\ lc_time' = search_emails_locale(lc_time, env_locale, outcome,
                                            setlocale_ok)
         /\ locale_last' = [op |-> "search_emails", before |-> lc_time,
                            ret |-> outcome]
    /\ UNCHANGED env_locale
    /\ UNCHANGED idleInLocale

NextLocale == SetLocale \/ SearchEmailsLocale

SpecLocale == InitLocale /\ [][NextLocale]_vars

\* ------------------------------------------------------------ claims (SpecLocale)
\* C34: after search_emails has returned or raised, the time locale of the
\* process is the one that was in force before the call, the default "C"
\* included.
C34_SearchKeepsTimeLocale ==
    (locale_last.op = "search_emails") => (lc_time = locale_last.before)


\* ============================================================ the body of a message
\* EmailParser.parse_email_content (email_parser.py, lines 176-246).  A text
\* is a sequence of characters; "<b>" and "</b>" stand for one tag each, " "
\* and "\n" are white space.  A message is the sequence of the parts
\* msg.walk() visits.

Tags == {"<b>", "</b>"}
WhiteSpace == {" ", "\n"}

PlainPayloads == { <<>>, <<" ">>, <<"p">>, <<"q", "\n">> }
HtmlPayloads == { <<>>, <<"<b>", "</b>">>, <<"<b>", "h", "</b>">>,
                  <<"h", " ", "\n", "h">> }

Part(content_type, attachment, payload) ==
    [content_type |-> content_type, attachment |-> attachment,
     payload |-> payload]

Parts ==
    { Part("text/plain", a, t) : a \in BOOLEAN, t \in PlainPayloads }
    \cup { Part("text/html", a, t) : a \in BOOLEAN, t \in HtmlPayloads }
    \cup { Part("image/png", a, <<"p">>) : a \in BOOLEAN }

PartLists == UNION { [1..n -> Parts] : n \in 0..MaxParts }

Messages ==
    { [is_multipart |-> TRUE, parts |-> ps] : ps \in PartLists }
    \cup { [is_multipart |-> FALSE, parts |-> <<part>>] : part \in Parts }

\* str.strip()
RECURSIVE lstrip(_)
lstrip(s) ==
    IF s # <<>> /\ Head(s) \in WhiteSpace THEN lstrip(Tail(s)) ELSE s

RECURSIVE rstrip(_)
rstrip(s) ==
    IF s # <<>> /\ s[Len(s)] \in WhiteSpace
    THEN rstrip(SubSeq(s, 1, Len(s) - 1)) ELSE s

strip(s) == rstrip(lstrip(s))

\* re.sub(r'\s+', ' ', s): every run of white space becomes one space
RECURSIVE collapse(_)
collapse(s) ==
    IF s = <<>> THEN <<>>
    ELSE IF Head(s) \in WhiteSpace
    THEN <<" ">> \o collapse(lstrip(s))
    ELSE <<Head(s)>> \o collapse(Tail(s))

\* re.sub(r'<[^>]+>', '', html_text), the collapse and strip()
clean_text(html_text) ==
    strip(collapse(SelectSeq(html_text, LAMBDA c : c \notin Tags)))

\* one turn of the loop over msg.walk(): content after the part
after_part(content, part) ==
    IF part.attachment THEN content
    ELSE IF part.content_type = "text/plain"
    THEN IF part.payload # <<>> THEN content \o part.payload \o <<"\n">>
         ELSE content
    ELSE IF part.content_type = "text/html"
    THEN IF /\ part.payload # <<>>
            /\ clean_text(part.payload) # <<>>
            /\ strip(content) = <<>>
         THEN clean_text(part.payload) \o <<"\n">>
         ELSE content
    ELSE content

RECURSIVE walk(_, _)
walk(content, parts) ==
    IF parts = <<>> THEN content
    ELSE walk(after_part(content, Head(parts)), Tail(parts))

NoContent == <<"[no content]">>

parse_email_content(msg) ==
    LET content == IF msg.is_multipart THEN walk(<<>>, msg.parts)
                   ELSE msg.parts[1].payload
    IN  IF content # <<>> THEN strip(content) ELSE NoContent

InitParse ==
    /\ ExInit /\ RunIdle /\ ConcIdle /\ OAuthIdle /\ FlowIdle /\ ConnIdle
    /\ BulkIdle /\ ClientIdle /\ ResolveIdle /\ GuiIdle
    /\ LoginIdle /\ LocaleIdle
    /\ parsed_msg \in Messages
    /\ parsed_body = NotParsed

ParseEmailContent ==
    /\ parsed_body = NotParsed
    /\ parsed_body' = parse_email_content(parsed_msg)
    /\ UNCHANGED parsed_msg
    /\ UNCHANGED idleInParse

NextParse == ParseEmailContent

SpecParse == InitParse /\ [][NextParse]_vars

\* ------------------------------------------------------------ claims (SpecParse)
\* the text/plain parts that are no attachment and gave a payload
PlainParts(msg) ==
    SelectSeq(msg.parts,
              LAMBDA part : /\ part.content_type = "text/plain"
                            /\ ~part.attachment
                            /\ part.payload # <<>>)

RECURSIVE joined(_)
joined(parts) ==
    IF parts = <<>> THEN <<>>
    ELSE Head(parts).payload \o <<"\n">> \o joined(Tail(parts))

\* a text with more than white space in it
HasText(s) == \E i \in 1..Len(s) : s[i] \notin WhiteSpace

\* C40: for a multipart message, whatever the order of its parts, the body
\* has text taken from HTML only when no text/plain part outside the
\* attachments gave content, and otherwise is the texts of those plain parts
\* joined in order with newlines.
C40_PlainTextExcludesHtml ==
    (/\ parsed_body # NotParsed
     /\ parsed_msg.is_multipart
     /\ HasText(joined(PlainParts(parsed_msg)))) =>
        /\ \A i \in 1..Len(parsed_body) : parsed_body[i] # "h"
        /\ parsed_body = strip(joined(PlainParts(parsed_msg)))


\* C21: with an enabled proxy configuration (that names the proxy's host and
\* port) no attempt makes a direct connection in place of the tunnel, and a
\* session that is returned runs over a socket tunneled through the proxy.
C21_ProxySessionIsTunneled ==
    (uses_proxy_class(proxy_config) /\ proxy_config.host) =>
        /\ \A i \in 1..Len(routes) : routes[i] # "fallback"
        /\ (conn_result.kind = "return") => (Last(routes) = "proxy")

====
